---- MODULE Spec2Model ----
(***************************************************************************)
(* Order-book state engine of bybit-orderflow-bot                          *)
(* (src/src/orderbook/manager.rs), its validator                           *)
(* (src/src/orderbook/validation.rs) and the feed path that drives it      *)
(* (src/src/bybit/websocket.rs, src/src/main.rs).                          *)
(*                                                                         *)
(* Prices and quantities are f64 in the source.  The model uses small      *)
(* integers for the finite values and the value NaN for the one non-finite *)
(* value the program itself creates: f64::from_bits(u64::MAX), the initial *)
(* content of best_ask, is a NaN, and every ordered comparison and every   *)
(* equality with it is false.                                              *)
(***************************************************************************)
EXTENDS Integers, Sequences, FiniteSets, TLC

VARIABLES
  orderbook,    \* the Orderbook the feed handler and the monitor share
  now,          \* the wall clock, in milliseconds
  validator,    \* the monitor's OrderbookValidator
  validation,   \* what the last validate call returned
  valid_returns,\* history: the enabled validate calls that returned Valid
  monitor,      \* monitor_orderbook's position manager, cooldown and config
  metrics,      \* the monitor's OrderbookMetrics
  tasks,        \* the handler tasks route_message spawned, in arrival order
  bid_readers,  \* the readers that hold sorted_bids' read lock
  ask_readers,  \* the readers that hold sorted_asks' read lock
  reader,       \* where each reader is in imbalance / liquidity_depth
  lastOp,       \* history: the call that completed last
  hist          \* history: what that call was (see NoHist)

bookVars == <<orderbook, lastOp, hist>>
valVars == <<validator, validation, valid_returns, monitor>>
metricVars == <<metrics>>
feedVars == <<tasks, bid_readers, ask_readers, reader>>
vars == <<orderbook, now, validator, validation, valid_returns, monitor, metrics,
          tasks, bid_readers, ask_readers, reader, lastOp, hist>>

(* ------------------------------ bounds -------------------------------- *)
MaxPrice == 2
MaxQty == 1
MaxEntries == 2
MaxNow == 1
MaxUpdates == 2
MaxMeasurements == 11
MaxDepthLevels == 2
MaxMsgs == 2
NumReaders == 2
MaxSlice == 3
MaxClock == 2
MaxWhaleLevels == 2
MaxRecorded == 1
MaxTestAsks == 7
MaxVolume == 2
MaxWindow == 1
MaxSnapshots == 3
MaxEvicted == 2
MaxBurst == 18
MaxValidTicks == 3
MinTicksBetweenTrades == 2

(* --------------------------- f64 arithmetic --------------------------- *)
NaN == -1

Prices == 1..MaxPrice
Qtys == (0 - 1)..MaxQty
Entries == Prices \X Qtys

\* f64 comparisons: false as soon as one operand is NaN
FGt(x, y) == x # NaN /\ y # NaN /\ x > y
FLt(x, y) == x # NaN /\ y # NaN /\ x < y
\* mutant: >= read as >
FGe_strict(x, y) == x # NaN /\ y # NaN /\ x > y
FGe(x, y) == x # NaN /\ y # NaN /\ x >= y
FEq(x, y) == x # NaN /\ y # NaN /\ x = y
FNe(x, y) == ~FEq(x, y)

SeqsUpTo(S, n) == UNION {[1..k -> S] : k \in 0..n}

\* the (bids, asks) arguments of one apply_snapshot / apply_delta call
Inputs ==
  {ba \in SeqsUpTo(Entries, MaxEntries) \X SeqsUpTo(Entries, MaxEntries) :
     Len(ba[1]) + Len(ba[2]) <= MaxEntries}

(* --------------------------- DashMap<Price, Quantity> ------------------ *)
EmptyMap == [p \in {} |-> 0]
MapInsert(m, p, q) == [x \in DOMAIN m \cup {p} |-> IF x = p THEN q ELSE m[x]]
MapRemove(m, p) == [x \in DOMAIN m \ {p} |-> m[x]]

SetMax(S) == CHOOSE x \in S : \A y \in S : y <= x
SetMin(S) == CHOOSE x \in S : \A y \in S : x <= y

(* --------------------------- Orderbook::new ---------------------------- *)
OrderbookNew ==
  [bids |-> EmptyMap, asks |-> EmptyMap,
   sorted_bids |-> <<>>, sorted_asks |-> <<>>,
   best_bid |-> 0, best_ask |-> NaN,
   last_update_time |-> 0, update_count |-> 0]

(* ----------------------- update_sorted_views --------------------------- *)
\* bids.sort_by(|a, b| b.price.cmp(&a.price)): keys of one map are distinct,
\* so the sorted vector does not depend on the map's iteration order
RECURSIVE SortDesc(_, _)
SortDesc(m, ts) ==
  IF DOMAIN m = {} THEN <<>>
  ELSE LET p == SetMax(DOMAIN m)
       IN <<[price |-> p, quantity |-> m[p], timestamp |-> ts]>>
            \o SortDesc(MapRemove(m, p), ts)

RECURSIVE SortAsc(_, _)
SortAsc(m, ts) ==
  IF DOMAIN m = {} THEN <<>>
  ELSE LET p == SetMin(DOMAIN m)
       IN <<[price |-> p, quantity |-> m[p], timestamp |-> ts]>>
            \o SortAsc(MapRemove(m, p), ts)

\* if let Some(best) = bids.first() { self.best_bid.store(...) }: an empty
\* side stores nothing, the atomic keeps what it held
PublishBest(sorted, old) == IF Len(sorted) > 0 THEN sorted[1].price ELSE old

\* mutant: the bids are sorted like the asks
update_sorted_views_bids_ascending(ob, t) ==
  LET sb == SortAsc(ob.bids, t)
      sa == SortAsc(ob.asks, t)
  IN [ob EXCEPT !.sorted_bids = sb,
                !.best_bid = PublishBest(sb, ob.best_bid),
                !.sorted_asks = sa,
                !.best_ask = PublishBest(sa, ob.best_ask)]

update_sorted_views(ob, t) ==
  LET sb == SortDesc(ob.bids, t)
      sa == SortAsc(ob.asks, t)
  IN [ob EXCEPT !.sorted_bids = sb,
                !.best_bid = PublishBest(sb, ob.best_bid),
                !.sorted_asks = sa,
                !.best_ask = PublishBest(sa, ob.best_ask)]

(* --------------------------- apply_snapshot ---------------------------- *)
\* for (price, qty) in levels { if qty > 0.0 { map.insert(price, qty) } }
RECURSIVE SnapshotInsert(_, _)
SnapshotInsert(m, levels) ==
  IF levels = <<>> THEN m
  ELSE SnapshotInsert(
         IF levels[1][2] > 0 THEN MapInsert(m, levels[1][1], levels[1][2]) ELSE m,
         Tail(levels))

\* mutant: the views are refreshed before the store is replaced
apply_snapshot_views_first(ob, bids, asks, t) ==
  LET viewed == update_sorted_views(ob, t)
  IN [viewed EXCEPT !.bids = SnapshotInsert(EmptyMap, bids),
                    !.asks = SnapshotInsert(EmptyMap, asks),
                    !.last_update_time = t,
                    !.update_count = ob.update_count + 1]

apply_snapshot(ob, bids, asks, t) ==
  LET filled == [ob EXCEPT !.bids = SnapshotInsert(EmptyMap, bids),
                           !.asks = SnapshotInsert(EmptyMap, asks)]
      viewed == update_sorted_views(filled, t)
  IN [viewed EXCEPT !.last_update_time = t,
                    !.update_count = ob.update_count + 1]

(* ----------------------------- apply_delta ----------------------------- *)
\* one side's loop: [map, changed]; `better(price, best)` is
\* price.0 > current_best for bids and price.0 < current_best for asks
\* mutant: a removal does not raise the changed flag
RECURSIVE DeltaBids_quiet_removal(_, _, _, _)
DeltaBids_quiet_removal(m, changed, levels, best) ==
  IF levels = <<>> THEN [map |-> m, changed |-> changed]
  ELSE LET price == levels[1][1]
           qty == levels[1][2]
       IN IF qty = 0
          THEN DeltaBids_quiet_removal(MapRemove(m, price), changed,
                                       Tail(levels), best)
          ELSE DeltaBids_quiet_removal(MapInsert(m, price, qty),
                                       changed \/ FGt(price, best),
                                       Tail(levels), best)

\* mutant: the bid loop compares as the ask loop does (price < current_best)
RECURSIVE DeltaBids_ask_compare(_, _, _, _)
DeltaBids_ask_compare(m, changed, levels, best) ==
  IF levels = <<>> THEN [map |-> m, changed |-> changed]
  ELSE LET price == levels[1][1]
           qty == levels[1][2]
       IN IF qty = 0
          THEN DeltaBids_ask_compare(MapRemove(m, price), TRUE,
                                     Tail(levels), best)
          ELSE DeltaBids_ask_compare(MapInsert(m, price, qty),
                                     changed \/ FLt(price, best),
                                     Tail(levels), best)

RECURSIVE DeltaBids(_, _, _, _)
DeltaBids(m, changed, levels, best) ==
  IF levels = <<>> THEN [map |-> m, changed |-> changed]
  ELSE LET price == levels[1][1]
           qty == levels[1][2]
       IN IF qty = 0
          THEN DeltaBids(MapRemove(m, price), TRUE, Tail(levels), best)
          ELSE DeltaBids(MapInsert(m, price, qty),
                         changed \/ FGt(price, best), Tail(levels), best)

RECURSIVE DeltaAsks(_, _, _, _)
DeltaAsks(m, changed, levels, best) ==
  IF levels = <<>> THEN [map |-> m, changed |-> changed]
  ELSE LET price == levels[1][1]
           qty == levels[1][2]
       IN IF qty = 0
          THEN DeltaAsks(MapRemove(m, price), TRUE, Tail(levels), best)
          ELSE DeltaAsks(MapInsert(m, price, qty),
                         changed \/ FLt(price, best), Tail(levels), best)

\* mutant: every delta rebuilds the sorted views
apply_delta_always_rebuilding(ob, bids, asks, t) ==
  LET b == DeltaBids(ob.bids, FALSE, bids, ob.best_bid)
      a == DeltaAsks(ob.asks, FALSE, asks, ob.best_ask)
      stored == [ob EXCEPT !.bids = b.map, !.asks = a.map]
  IN [update_sorted_views(stored, t) EXCEPT !.last_update_time = t]

\* mutant: the delta counts as an update
apply_delta_counting(ob, bids, asks, t) ==
  LET b == DeltaBids(ob.bids, FALSE, bids, ob.best_bid)
      a == DeltaAsks(ob.asks, FALSE, asks, ob.best_ask)
      stored == [ob EXCEPT !.bids = b.map, !.asks = a.map]
      viewed == IF b.changed \/ a.changed
                THEN update_sorted_views(stored, t) ELSE stored
  IN [viewed EXCEPT !.last_update_time = t,
                    !.update_count = ob.update_count + 1]

apply_delta(ob, bids, asks, t) ==
  LET b == DeltaBids(ob.bids, FALSE, bids, ob.best_bid)
      a == DeltaAsks(ob.asks, FALSE, asks, ob.best_ask)
      stored == [ob EXCEPT !.bids = b.map, !.asks = a.map]
      viewed == IF b.changed \/ a.changed
                THEN update_sorted_views(stored, t) ELSE stored
  IN [viewed EXCEPT !.last_update_time = t]

(* ------------------------------ queries -------------------------------- *)
best_bid_ask(ob) == <<ob.best_bid, ob.best_ask>>

RECURSIVE SumQty(_, _)
\* levels.iter().take(depth).map(|level| level.quantity.0).sum()
SumQty(levels, depth) ==
  IF depth = 0 \/ levels = <<>> THEN 0
  ELSE levels[1].quantity + SumQty(Tail(levels), depth - 1)

\* a quotient num/den is kept as the pair <<num, den>>; 0.0 is <<0, 1>>
imbalance(ob, depth) ==
  LET bid_volume == SumQty(ob.sorted_bids, depth)
      ask_volume == SumQty(ob.sorted_asks, depth)
  IN IF bid_volume + ask_volume = 0 THEN <<0, 1>>
     ELSE <<bid_volume - ask_volume, bid_volume + ask_volume>>

liquidity_depth(ob, depth) ==
  SumQty(ob.sorted_bids, depth) + SumQty(ob.sorted_asks, depth)

latency_ms(ob, t) == IF t >= ob.last_update_time THEN t - ob.last_update_time ELSE 0

(* ------------------------------ validator ------------------------------ *)
\* f64 quotients are kept exact, as pairs <<numerator, denominator>> with a
\* positive denominator; RNaN is the NaN that arithmetic on a NaN gives
RNaN == <<0, 0>>
RIsNaN(r) == r[2] = 0
RGt(r, s) == ~RIsNaN(r) /\ ~RIsNaN(s) /\ r[1] * s[2] > s[1] * r[2]
RLe(r, s) == ~RIsNaN(r) /\ ~RIsNaN(s) /\ r[1] * s[2] <= s[1] * r[2]
RMul(r, s) == IF RIsNaN(r) \/ RIsNaN(s) THEN RNaN ELSE <<r[1] * s[1], r[2] * s[2]>>

\* ValidationConfig::default()
DefaultMaxSpreadMultiplier == <<3, 1>>
DefaultMinLiquidityMultiplier == <<1, 4>>

CalibrationMin == 10
MaxHistorySize == 100
LiquidityDepth == 10

Configs ==
  [max_spread_multiplier : {DefaultMaxSpreadMultiplier},
   min_liquidity_multiplier : {DefaultMinLiquidityMultiplier},
   max_data_age_ms : {0},
   min_depth_levels : 0..MaxDepthLevels,
   enabled : BOOLEAN]

\* OrderbookValidator::new; a Measurement's timestamp_ms is written and never
\* read, and is left out
ValidatorNew(config) ==
  [measurements |-> <<>>,
   normal_spread_range |-> <<(<<0, 1>>), (<<1, 1>>)>>,
   normal_liquidity_range |-> <<0, 100>>,
   config |-> config,
   panicked |-> FALSE]

\* (bid + ask) / 2.0 and (ask - bid) / mid_price(), 1.0 when bid == 0.0
spread_pct(ob) ==
  IF ob.best_bid = 0 THEN <<1, 1>>
  ELSE IF ob.best_ask = NaN \/ ob.best_bid + ob.best_ask = 0 THEN RNaN
  ELSE <<2 * (ob.best_ask - ob.best_bid), ob.best_bid + ob.best_ask>>

\* mutant: the bid levels are returned for both sides
get_sorted_levels_bids_only(ob, n) ==
  LET bids == SubSeq(ob.sorted_bids, 1,
                     IF Len(ob.sorted_bids) < n THEN Len(ob.sorted_bids) ELSE n)
  IN <<bids, bids>>

\* get_sorted_levels(n): the top n levels of each sorted view
get_sorted_levels(ob, n) ==
  <<SubSeq(ob.sorted_bids, 1, IF Len(ob.sorted_bids) < n THEN Len(ob.sorted_bids) ELSE n),
    SubSeq(ob.sorted_asks, 1, IF Len(ob.sorted_asks) < n THEN Len(ob.sorted_asks) ELSE n)>>

\* v.sort_by(|a, b| a.partial_cmp(b).unwrap()) on quotients, on integers
RECURSIVE RInsert(_, _)
RInsert(sorted, r) ==
  IF sorted = <<>> THEN <<r>>
  ELSE IF RLe(r, sorted[1]) THEN <<r>> \o sorted
  ELSE <<sorted[1]>> \o RInsert(Tail(sorted), r)

RECURSIVE RSort(_)
RSort(rs) == IF rs = <<>> THEN <<>> ELSE RInsert(RSort(Tail(rs)), rs[1])

RECURSIVE IInsert(_, _)
IInsert(sorted, x) ==
  IF sorted = <<>> THEN <<x>>
  ELSE IF x <= sorted[1] THEN <<x>> \o sorted
  ELSE <<sorted[1]>> \o IInsert(Tail(sorted), x)

RECURSIVE ISort(_)
ISort(xs) == IF xs = <<>> THEN <<>> ELSE IInsert(ISort(Tail(xs)), xs[1])

\* partial_cmp(..).unwrap() panics on a NaN operand; sort_by compares as soon
\* as the vector holds two elements
SortPanics(rs) == Len(rs) >= 2 /\ \E i \in 1..Len(rs) : RIsNaN(rs[i])

\* mutant: the two percentiles change places
Percentiles_swapped(sorted) ==
  LET n == Len(sorted)
      p10_idx == n \div 10
      p90_idx == (9 * n) \div 10
      last == n - 1
  IN <<sorted[(IF p90_idx < last THEN p90_idx ELSE last) + 1],
       sorted[(IF p10_idx < last THEN p10_idx ELSE last) + 1]>>

Percentiles(sorted) ==
  LET n == Len(sorted)
      p10_idx == n \div 10
      p90_idx == (9 * n) \div 10
      last == n - 1
  IN <<sorted[(IF p10_idx < last THEN p10_idx ELSE last) + 1],
       sorted[(IF p90_idx < last THEN p90_idx ELSE last) + 1]>>

\* mutant: the measurement is pushed twice
update_normal_ranges_twice(v, spread, liquidity) ==
  LET m == [spread_pct |-> spread, liquidity |-> liquidity]
      pushed == Append(Append(v.measurements, m), m)
      kept == IF Len(pushed) > MaxHistorySize
              THEN SubSeq(pushed, Len(pushed) - MaxHistorySize + 1, Len(pushed))
              ELSE pushed
      spreads == [i \in 1..Len(kept) |-> kept[i].spread_pct]
      liquidities == [i \in 1..Len(kept) |-> kept[i].liquidity]
  IN IF SortPanics(spreads)
     THEN [v EXCEPT !.measurements = kept, !.panicked = TRUE]
     ELSE [v EXCEPT !.measurements = kept,
                    !.normal_spread_range = Percentiles(RSort(spreads)),
                    !.normal_liquidity_range = Percentiles(ISort(liquidities))]

update_normal_ranges(v, spread, liquidity) ==
  LET pushed == Append(v.measurements,
                       [spread_pct |-> spread, liquidity |-> liquidity])
      kept == IF Len(pushed) > MaxHistorySize
              THEN SubSeq(pushed, Len(pushed) - MaxHistorySize + 1, Len(pushed))
              ELSE pushed
      spreads == [i \in 1..Len(kept) |-> kept[i].spread_pct]
      liquidities == [i \in 1..Len(kept) |-> kept[i].liquidity]
  IN IF SortPanics(spreads)
     THEN [v EXCEPT !.measurements = kept, !.panicked = TRUE]
     ELSE [v EXCEPT !.measurements = kept,
                    !.normal_spread_range = Percentiles(RSort(spreads)),
                    !.normal_liquidity_range = Percentiles(ISort(liquidities))]

\* the outcome of one call: what it returns ("panic" when it unwinds) and
\* the validator it leaves
Returns(result, v) == [result |-> result, validator |-> v]

\* mutant: the depth check runs before the staleness check
validate_depth_before_stale(v, ob, t) ==
  LET bid == ob.best_bid
      ask == ob.best_ask
      levels == get_sorted_levels(ob, v.config.min_depth_levels)
      spread == spread_pct(ob)
      liquidity == liquidity_depth(ob, LiquidityDepth)
      calibrated == Len(v.measurements) >= CalibrationMin
      updated == update_normal_ranges(v, spread, liquidity)
  IN IF ~v.config.enabled THEN Returns("Valid", v)
     ELSE IF FGe(bid, ask) /\ FNe(bid, 0) /\ FNe(ask, NaN)
       THEN Returns("PriceAnomaly", v)
     ELSE IF FEq(bid, 0) \/ FEq(ask, 0) \/ FEq(ask, NaN)
       THEN Returns("InsufficientDepth", v)
     ELSE IF \/ Len(levels[1]) < v.config.min_depth_levels
             \/ Len(levels[2]) < v.config.min_depth_levels
       THEN Returns("InsufficientDepth", v)
     ELSE IF latency_ms(ob, t) > v.config.max_data_age_ms
       THEN Returns("StaleData", v)
     ELSE IF /\ calibrated
             /\ RGt(spread, RMul(v.normal_spread_range[2],
                                 v.config.max_spread_multiplier))
       THEN Returns("WideSpread", v)
     ELSE IF /\ calibrated
             /\ liquidity * v.config.min_liquidity_multiplier[2]
                  < v.normal_liquidity_range[1] * v.config.min_liquidity_multiplier[1]
       THEN Returns("LowLiquidity", v)
     ELSE IF updated.panicked THEN Returns("panic", updated)
     ELSE Returns("Valid", updated)

\* mutant: a rejected wide or thin book is recorded all the same
validate_recording_rejected(v, ob, t) ==
  LET bid == ob.best_bid
      ask == ob.best_ask
      levels == get_sorted_levels(ob, v.config.min_depth_levels)
      spread == spread_pct(ob)
      liquidity == liquidity_depth(ob, LiquidityDepth)
      calibrated == Len(v.measurements) >= CalibrationMin
      updated == update_normal_ranges(v, spread, liquidity)
  IN IF ~v.config.enabled THEN Returns("Valid", v)
     ELSE IF FGe(bid, ask) /\ FNe(bid, 0) /\ FNe(ask, NaN)
       THEN Returns("PriceAnomaly", v)
     ELSE IF FEq(bid, 0) \/ FEq(ask, 0) \/ FEq(ask, NaN)
       THEN Returns("InsufficientDepth", v)
     ELSE IF latency_ms(ob, t) > v.config.max_data_age_ms
       THEN Returns("StaleData", v)
     ELSE IF \/ Len(levels[1]) < v.config.min_depth_levels
             \/ Len(levels[2]) < v.config.min_depth_levels
       THEN Returns("InsufficientDepth", v)
     ELSE IF /\ calibrated
             /\ RGt(spread, RMul(v.normal_spread_range[2],
                                 v.config.max_spread_multiplier))
       THEN Returns("WideSpread", updated)
     ELSE IF /\ calibrated
             /\ liquidity * v.config.min_liquidity_multiplier[2]
                  < v.normal_liquidity_range[1] * v.config.min_liquidity_multiplier[1]
       THEN Returns("LowLiquidity", updated)
     ELSE IF updated.panicked THEN Returns("panic", updated)
     ELSE Returns("Valid", updated)

\* mutant: config.enabled is not looked at
validate_ignoring_enabled(v, ob, t) ==
  LET bid == ob.best_bid
      ask == ob.best_ask
      levels == get_sorted_levels(ob, v.config.min_depth_levels)
      spread == spread_pct(ob)
      liquidity == liquidity_depth(ob, LiquidityDepth)
      calibrated == Len(v.measurements) >= CalibrationMin
      updated == update_normal_ranges(v, spread, liquidity)
  IN IF FALSE THEN Returns("Valid", v)
     ELSE IF FGe(bid, ask) /\ FNe(bid, 0) /\ FNe(ask, NaN)
       THEN Returns("PriceAnomaly", v)
     ELSE IF FEq(bid, 0) \/ FEq(ask, 0) \/ FEq(ask, NaN)
       THEN Returns("InsufficientDepth", v)
     ELSE IF latency_ms(ob, t) > v.config.max_data_age_ms
       THEN Returns("StaleData", v)
     ELSE IF \/ Len(levels[1]) < v.config.min_depth_levels
             \/ Len(levels[2]) < v.config.min_depth_levels
       THEN Returns("InsufficientDepth", v)
     ELSE IF /\ calibrated
             /\ RGt(spread, RMul(v.normal_spread_range[2],
                                 v.config.max_spread_multiplier))
       THEN Returns("WideSpread", v)
     ELSE IF /\ calibrated
             /\ liquidity * v.config.min_liquidity_multiplier[2]
                  < v.normal_liquidity_range[1] * v.config.min_liquidity_multiplier[1]
       THEN Returns("LowLiquidity", v)
     ELSE IF updated.panicked THEN Returns("panic", updated)
     ELSE Returns("Valid", updated)

validate(v, ob, t) ==
  LET bid == ob.best_bid
      ask == ob.best_ask
      levels == get_sorted_levels(ob, v.config.min_depth_levels)
      spread == spread_pct(ob)
      liquidity == liquidity_depth(ob, LiquidityDepth)
      calibrated == Len(v.measurements) >= CalibrationMin
      updated == update_normal_ranges(v, spread, liquidity)
  IN IF ~v.config.enabled THEN Returns("Valid", v)
     ELSE IF FGe(bid, ask) /\ FNe(bid, 0) /\ FNe(ask, NaN)
       THEN Returns("PriceAnomaly", v)
     ELSE IF FEq(bid, 0) \/ FEq(ask, 0) \/ FEq(ask, NaN)
       THEN Returns("InsufficientDepth", v)
     ELSE IF latency_ms(ob, t) > v.config.max_data_age_ms
       THEN Returns("StaleData", v)
     ELSE IF \/ Len(levels[1]) < v.config.min_depth_levels
             \/ Len(levels[2]) < v.config.min_depth_levels
       THEN Returns("InsufficientDepth", v)
     ELSE IF /\ calibrated
             /\ RGt(spread, RMul(v.normal_spread_range[2],
                                 v.config.max_spread_multiplier))
       THEN Returns("WideSpread", v)
     ELSE IF /\ calibrated
             /\ liquidity * v.config.min_liquidity_multiplier[2]
                  < v.normal_liquidity_range[1] * v.config.min_liquidity_multiplier[1]
       THEN Returns("LowLiquidity", v)
     ELSE IF updated.panicked THEN Returns("panic", updated)
     ELSE Returns("Valid", updated)

\* mutant: ten measurements are not yet enough
is_calibrated_strict(v) == Len(v.measurements) > CalibrationMin

is_calibrated(v) == Len(v.measurements) >= CalibrationMin

(* --------------------------- OrderbookMetrics -------------------------- *)
\* max_history_size and max_large_orders of OrderbookMetrics::new
VolumeHistorySize == 60
MaxLargeOrders == 20

\* OrderbookMetrics::new; an f64 quotient is the pair <<numerator,
\* denominator>>, 0.0 is <<0, 1>>
OrderbookMetricsNew ==
  [volume_history |-> <<>>,
   avg_order_size |-> <<0, 1>>,
   large_orders |-> <<>>,
   bid_pressure |-> <<0, 1>>,
   ask_pressure |-> <<0, 1>>,
   prev_best_bid |-> 0,
   prev_best_ask |-> 0,
   prev_timestamp_ms |-> 0]

\* SystemTime::now().duration_since(UNIX_EPOCH).as_millis(): the clock `now`
\* counts from the start of the run, which lies after the epoch
SystemTimeMs(t) == t + 1

\* the last n elements of a VecDeque (while len > n { pop_front() })
KeepLast(q, n) == IF Len(q) > n THEN SubSeq(q, Len(q) - n + 1, Len(q)) ELSE q

\* mutant: the newest element is dropped when the ring is full
KeepFirst(q, n) == IF Len(q) > n THEN SubSeq(q, 1, n) ELSE q

VolumeSnapshot(bid_volume, ask_volume, t) ==
  [timestamp_ms |-> SystemTimeMs(t),
   bid_volume |-> bid_volume,
   ask_volume |-> ask_volume,
   total_volume |-> bid_volume + ask_volume]

\* mutant: eviction at the back
add_snapshot_evicting_newest(m, bid_volume, ask_volume, t) ==
  [m EXCEPT !.volume_history =
     KeepFirst(Append(m.volume_history, VolumeSnapshot(bid_volume, ask_volume, t)),
               VolumeHistorySize)]

add_snapshot(m, bid_volume, ask_volume, t) ==
  [m EXCEPT !.volume_history =
     KeepLast(Append(m.volume_history, VolumeSnapshot(bid_volume, ask_volume, t)),
              VolumeHistorySize)]

\* now_ms.saturating_sub(window_ms)
SaturatingSub(a, b) == IF a > b THEN a - b ELSE 0

\* volume_history.iter().find(|s| s.timestamp_ms >= cutoff_time): the index
\* of the first match from position i on, 0 when there is none
RECURSIVE FindFrom(_, _, _)
FindFrom(history, i, cutoff_time) ==
  IF i > Len(history) THEN 0
  ELSE IF history[i].timestamp_ms >= cutoff_time THEN i
  ELSE FindFrom(history, i + 1, cutoff_time)

\* delta / time_diff with time_diff = (current - old) as f64 / 1000.0
PerSecond(delta, elapsed_ms) ==
  IF elapsed_ms > 0 THEN <<delta * 1000, elapsed_ms>> ELSE <<0, 1>>

\* mutant: no fall-back to the oldest snapshot
calculate_volume_delta_window_only(m, window_ms, t) ==
  IF Len(m.volume_history) < 2 THEN <<0, 1>>
  ELSE LET cutoff_time == SaturatingSub(SystemTimeMs(t), window_ms)
           current == m.volume_history[Len(m.volume_history)]
           found == FindFrom(m.volume_history, 1, cutoff_time)
       IN IF found = 0 THEN <<0, 1>>
          ELSE PerSecond(current.total_volume - m.volume_history[found].total_volume,
                         current.timestamp_ms - m.volume_history[found].timestamp_ms)

calculate_volume_delta(m, window_ms, t) ==
  IF Len(m.volume_history) < 2 THEN <<0, 1>>
  ELSE LET cutoff_time == SaturatingSub(SystemTimeMs(t), window_ms)
           current == m.volume_history[Len(m.volume_history)]
           found == FindFrom(m.volume_history, 1, cutoff_time)
           old == m.volume_history[IF found = 0 THEN 1 ELSE found]
       IN PerSecond(current.total_volume - old.total_volume,
                    current.timestamp_ms - old.timestamp_ms)

\* levels.iter().map(|(_, qty)| qty).sum()
RECURSIVE TotalQty(_)
TotalQty(levels) ==
  IF levels = <<>> THEN 0 ELSE levels[1][2] + TotalQty(Tail(levels))

\* mutant: the new mean is averaged with the one already held
update_avg_order_size_merging(m, levels) ==
  IF levels = <<>> THEN m
  ELSE [m EXCEPT !.avg_order_size =
          <<m.avg_order_size[1] * Len(levels) + TotalQty(levels) * m.avg_order_size[2],
            2 * m.avg_order_size[2] * Len(levels)>>]

\* total / levels.len() as f64, kept as the pair <<total, len>>
update_avg_order_size(m, levels) ==
  IF levels = <<>> THEN m
  ELSE [m EXCEPT !.avg_order_size = <<TotalQty(levels), Len(levels)>>]

\* the outcome of one call: what it returns and the metrics it leaves
Outcome(result, m) == [result |-> result, metrics |-> m]

\* the LargeOrder pushed for a level; size_multiplier = qty / avg_order_size
\* with avg_order_size = avg[1] / avg[2]
LargeOrder(level, side, avg, t) ==
  [price |-> level[1],
   size |-> level[2],
   side |-> side,
   timestamp_ms |-> SystemTimeMs(t),
   size_multiplier |-> <<level[2] * avg[2], avg[1]>>]

\* for (price, qty) in levels { if *qty > threshold { whales.push(..) } }
\* with threshold = avg_order_size * threshold_multiplier
RECURSIVE WhalesOf(_, _, _, _, _)
WhalesOf(levels, side, avg, threshold_multiplier, t) ==
  IF levels = <<>> THEN <<>>
  ELSE (IF levels[1][2] * avg[2] > avg[1] * threshold_multiplier
        THEN <<LargeOrder(levels[1], side, avg, t)>> ELSE <<>>)
         \o WhalesOf(Tail(levels), side, avg, threshold_multiplier, t)

\* mutant: a level at the threshold counts as a whale
RECURSIVE WhalesOf_at_threshold(_, _, _, _, _)
WhalesOf_at_threshold(levels, side, avg, threshold_multiplier, t) ==
  IF levels = <<>> THEN <<>>
  ELSE (IF levels[1][2] * avg[2] >= avg[1] * threshold_multiplier
        THEN <<LargeOrder(levels[1], side, avg, t)>> ELSE <<>>)
         \o WhalesOf_at_threshold(Tail(levels), side, avg, threshold_multiplier, t)

\* mutant: a level at the threshold counts as a whale
detect_whales_at_threshold(m, bid_levels, ask_levels, threshold_multiplier, t) ==
  IF m.avg_order_size[1] = 0 THEN Outcome(<<>>, m)
  ELSE LET whales ==
             WhalesOf_at_threshold(bid_levels, "Bid", m.avg_order_size,
                                   threshold_multiplier, t)
               \o WhalesOf_at_threshold(ask_levels, "Ask", m.avg_order_size,
                                        threshold_multiplier, t)
       IN Outcome(whales,
                  [m EXCEPT !.large_orders =
                     KeepLast(m.large_orders \o whales, MaxLargeOrders)])

\* mutant: the ring is never trimmed
detect_whales_untrimmed(m, bid_levels, ask_levels, threshold_multiplier, t) ==
  IF m.avg_order_size[1] = 0 THEN Outcome(<<>>, m)
  ELSE LET whales ==
             WhalesOf(bid_levels, "Bid", m.avg_order_size, threshold_multiplier, t)
               \o WhalesOf(ask_levels, "Ask", m.avg_order_size,
                           threshold_multiplier, t)
       IN Outcome(whales, [m EXCEPT !.large_orders = m.large_orders \o whales])

detect_whales(m, bid_levels, ask_levels, threshold_multiplier, t) ==
  IF m.avg_order_size[1] = 0 THEN Outcome(<<>>, m)
  ELSE LET whales ==
             WhalesOf(bid_levels, "Bid", m.avg_order_size, threshold_multiplier, t)
               \o WhalesOf(ask_levels, "Ask", m.avg_order_size,
                           threshold_multiplier, t)
       IN Outcome(whales,
                  [m EXCEPT !.large_orders =
                     KeepLast(m.large_orders \o whales, MaxLargeOrders)])

\* mutant: the reference is replaced also when no time has passed
calculate_pressure_always_replacing(m, best_bid, best_ask, t) ==
  LET timestamp_ms == SystemTimeMs(t)
      elapsed_ms == timestamp_ms - m.prev_timestamp_ms
      referenced == [m EXCEPT !.prev_best_bid = best_bid,
                              !.prev_best_ask = best_ask,
                              !.prev_timestamp_ms = timestamp_ms]
  IN IF m.prev_timestamp_ms = 0
     THEN Outcome(<<(<<0, 1>>), (<<0, 1>>)>>, referenced)
     ELSE IF elapsed_ms > 0
     THEN LET bid_pressure == <<(best_bid - m.prev_best_bid) * 1000, elapsed_ms>>
              ask_pressure == <<(best_ask - m.prev_best_ask) * 1000, elapsed_ms>>
          IN Outcome(<<bid_pressure, ask_pressure>>,
                     [referenced EXCEPT !.bid_pressure = bid_pressure,
                                        !.ask_pressure = ask_pressure])
     ELSE Outcome(<<m.bid_pressure, m.ask_pressure>>, referenced)

calculate_pressure(m, best_bid, best_ask, t) ==
  LET timestamp_ms == SystemTimeMs(t)
      elapsed_ms == timestamp_ms - m.prev_timestamp_ms
      referenced == [m EXCEPT !.prev_best_bid = best_bid,
                              !.prev_best_ask = best_ask,
                              !.prev_timestamp_ms = timestamp_ms]
  IN IF m.prev_timestamp_ms = 0
     THEN Outcome(<<(<<0, 1>>), (<<0, 1>>)>>, referenced)
     ELSE IF elapsed_ms > 0
     THEN LET bid_pressure == <<(best_bid - m.prev_best_bid) * 1000, elapsed_ms>>
              ask_pressure == <<(best_ask - m.prev_best_ask) * 1000, elapsed_ms>>
          IN Outcome(<<bid_pressure, ask_pressure>>,
                     [referenced EXCEPT !.bid_pressure = bid_pressure,
                                        !.ask_pressure = ask_pressure])
     ELSE Outcome(<<m.bid_pressure, m.ask_pressure>>, m)

(* ------------------------- monitor_orderbook -------------------------- *)
\* PositionManager::new (position: None), trade_cooldown = 0 and the
\* config's risk.keep_software_monitoring; an Option is a sequence of at
\* most one element
MonitorNew(keep_software_monitoring) ==
  [position |-> <<>>, trade_cooldown |-> 0,
   keep_software_monitoring |-> keep_software_monitoring]

FLe(x, y) == x # NaN /\ y # NaN /\ x <= y

\* the monitor's prices are counted in halves of a price unit, so that
\* mid_price = (bid + ask) / 2.0 is bid + ask
mid_price(ob) ==
  IF ob.best_bid = NaN \/ ob.best_ask = NaN THEN NaN ELSE ob.best_bid + ob.best_ask

\* entry_price * (1.0 - pct) and entry_price * (1.0 + pct): a distance
\* below or above the entry price
Lowered(price, distance) == IF price = NaN THEN NaN ELSE price - distance
Raised(price, distance) == IF price = NaN THEN NaN ELSE price + distance

\* PositionManager::open_position_dynamic: Some(Position { .. }) with the
\* stop and the target DynamicRiskParams::calculate gives
open_position_dynamic(side, entry_price, sl_distance, tp_distance) ==
  <<[side |-> side,
     entry_price |-> entry_price,
     stop_loss |-> IF side = "Buy" THEN Lowered(entry_price, sl_distance)
                   ELSE Raised(entry_price, sl_distance),
     take_profit |-> IF side = "Buy" THEN Raised(entry_price, tp_distance)
                     ELSE Lowered(entry_price, tp_distance)]>>

\* PositionManager::check_exit
check_exit(position, current_price) ==
  IF position = <<>> THEN "None"
  ELSE LET pos == position[1]
       IN IF pos.side = "Buy"
          THEN IF FLe(current_price, pos.stop_loss) THEN "StopLoss"
               ELSE IF FGe(current_price, pos.take_profit) THEN "TakeProfit"
               ELSE "None"
          ELSE IF FGe(current_price, pos.stop_loss) THEN "StopLoss"
               ELSE IF FLe(current_price, pos.take_profit) THEN "TakeProfit"
               ELSE "None"

\* what one tick of the loop leaves: the monitor's state, the validator,
\* the last validation result, and what the tick did
TickOutcome(m, v, result, skipped, cooldown, placed, exit) ==
  [monitor |-> m, validator |-> v, validation |-> result, skipped |-> skipped,
   cooldown |-> cooldown, placed |-> placed, exit |-> exit]

\* one pass of the loop of monitor_orderbook. `inp` is what the strategy,
\* the volatility calculator and the exchange contribute to the tick:
\* should_trade(&signal), signal.bias.side(), the stop and target distances
\* and whether place_order returned Ok
monitor_tick(m, ob, v, validation_before, t, inp) ==
  LET bid == best_bid_ask(ob)[1]
      ask == best_bid_ask(ob)[2]
      r == validate(v, ob, t)
      mid == mid_price(ob)
      cooled == IF m.trade_cooldown > 0 THEN m.trade_cooldown - 1 ELSE m.trade_cooldown
      has_position == m.position # <<>>
      places == /\ ~has_position
                /\ cooled = 0
                /\ inp.should_trade
                /\ inp.side # "None"
      opened == places /\ inp.order = "Ok"
      traded == [m EXCEPT
                   !.position = IF opened
                                THEN open_position_dynamic(inp.side, mid,
                                                           inp.sl_distance,
                                                           inp.tp_distance)
                                ELSE m.position,
                   !.trade_cooldown = IF opened THEN MinTicksBetweenTrades
                                      ELSE cooled]
      exit == IF has_position /\ m.keep_software_monitoring
              THEN check_exit(m.position, mid) ELSE "None"
      closed == IF exit # "None" THEN [traded EXCEPT !.position = <<>>] ELSE traded
  IN IF FEq(bid, 0) \/ FEq(ask, 0) \/ FEq(ask, NaN)
     THEN TickOutcome(m, v, validation_before, "uninitialised",
                      m.trade_cooldown, FALSE, "None")
     ELSE IF r.result # "Valid"
     THEN TickOutcome(m, r.validator, r.result, "invalid",
                      m.trade_cooldown, FALSE, "None")
     ELSE TickOutcome(closed, r.validator, r.result, "", cooled, places, exit)

(* ------------------------- the engine's actions ------------------------ *)
\* `lastOp` and `hist` are history variables: the call that completed last
\* and what that call was, as far as the properties below need it.
NoHist ==
  [repeat |-> FALSE, zeroed |-> FALSE, raised |-> 0, reverted |-> FALSE,
   slice |-> <<>>, before |-> <<0, 1>>,
   bids |-> <<>>, asks |-> <<>>, arg |-> 0, at |-> 0, returned |-> <<>>,
   recorded |-> <<>>, called |-> FALSE, added |-> <<>>,
   detected |-> <<>>,
   loaded |-> [r \in 1..NumReaders |-> [bid |-> 0, completed |-> 0]],
   seen |-> <<>>, crossed_before |-> FALSE,
   msg |-> <<>>, prev |-> <<>>, tick |-> <<>>]

\* the last entry of `levels` that names `price` carries quantity 0
LastIsZero(levels, price) ==
  \E i \in 1..Len(levels) :
    /\ levels[i] = <<price, 0>>
    /\ \A j \in (i + 1)..Len(levels) : levels[j][1] # price

\* the snapshot carries the levels the previous call, a snapshot, left
SnapshotRepeats(bids, asks) ==
  /\ lastOp = "apply_snapshot"
  /\ SnapshotInsert(EmptyMap, bids) = orderbook.bids
  /\ SnapshotInsert(EmptyMap, asks) = orderbook.asks

\* the delta deletes a level that is in the store
DeltaZeroes(bids, asks) ==
  \/ \E p \in DOMAIN orderbook.bids : LastIsZero(bids, p)
  \/ \E p \in DOMAIN orderbook.asks : LastIsZero(asks, p)

\* the delta is one bid of positive quantity above the published best bid
DeltaRaises(bids) ==
  IF Len(bids) = 1 /\ bids[1][2] > 0 /\ FGt(bids[1][1], orderbook.best_bid)
  THEN bids[1][1] ELSE 0

\* the delta removes the bid the previous call raised, and a bid remains
DeltaReverts(bids) ==
  /\ hist.raised # 0
  /\ bids = <<(<<hist.raised, 0>>)>>
  /\ DOMAIN orderbook.bids # {hist.raised}

Readers == 1..NumReaders

\* no message routed yet, no reader inside a query
FeedIdle ==
  /\ tasks = <<>>
  /\ bid_readers = {}
  /\ ask_readers = {}
  /\ reader = [r \in Readers |-> "idle"]

Init ==
  /\ orderbook = OrderbookNew
  /\ now = 0
  /\ lastOp = "new"
  /\ hist = NoHist
  /\ validator = ValidatorNew(CHOOSE c \in Configs : c.enabled /\ c.min_depth_levels = 1)
  /\ validation = "none"
  /\ valid_returns = 0
  /\ monitor = MonitorNew(TRUE)
  /\ metrics = OrderbookMetricsNew
  /\ FeedIdle

ApplySnapshot(bids, asks) ==
  /\ orderbook.update_count < MaxUpdates
  /\ orderbook' = apply_snapshot(orderbook, bids, asks, now)
  /\ lastOp' = "apply_snapshot"
  /\ hist' = [NoHist EXCEPT !.repeat = SnapshotRepeats(bids, asks)]
  /\ UNCHANGED <<metricVars, now, valVars, feedVars>>

ApplyDelta(bids, asks) ==
  /\ orderbook' = apply_delta(orderbook, bids, asks, now)
  /\ lastOp' = "apply_delta"
  /\ hist' = [NoHist EXCEPT !.zeroed = DeltaZeroes(bids, asks),
                            !.raised = DeltaRaises(bids),
                            !.reverted = DeltaReverts(bids)]
  /\ UNCHANGED <<metricVars, now, valVars, feedVars>>

\* the wall clock (chrono::Utc::now().timestamp_millis())
Tick ==
  /\ now < MaxNow
  /\ now' = now + 1
  /\ UNCHANGED <<metricVars, bookVars, valVars, feedVars>>

Snapshot == \E ba \in Inputs : ApplySnapshot(ba[1], ba[2])
Delta == \E ba \in Inputs : ApplyDelta(ba[1], ba[2])

Next == Snapshot \/ Delta

Spec == Init /\ [][Next]_vars

(* ------------------- the monitor's validator and a feed ---------------- *)
\* the levels the feed carries here: a narrow and a wide spread, a thin and a
\* deep book, a crossed one
ValBidLevels == {<<1, 1>>, <<3, 1>>, <<3, 5>>}
ValAskLevels == {<<3, 1>>, <<4, 1>>, <<4, 5>>}
ValInputs ==
  ({<<>>} \cup {<<l>> : l \in ValBidLevels})
    \X ({<<>>} \cup {<<l>> : l \in ValAskLevels})

ValInit ==
  /\ orderbook = OrderbookNew
  /\ now = 0
  /\ lastOp = "new"
  /\ hist = NoHist
  /\ validator \in {ValidatorNew(c) : c \in Configs}
  /\ validation = "none"
  /\ valid_returns = 0
  /\ monitor = MonitorNew(TRUE)
  /\ metrics = OrderbookMetricsNew
  /\ FeedIdle

ValSnapshot == \E ba \in ValInputs : ApplySnapshot(ba[1], ba[2])

\* validator.validate(&orderbook) in monitor_orderbook
Validate ==
  /\ ~validator.panicked
  /\ Len(validator.measurements) < MaxMeasurements
  /\ LET r == validate(validator, orderbook, now)
     IN /\ validator' = r.validator
        /\ validation' = r.result
        /\ valid_returns' = IF validator.config.enabled /\ r.result = "Valid"
                            THEN valid_returns + 1 ELSE valid_returns
  /\ monitor' = monitor
  /\ lastOp' = "validate"
  /\ hist' = NoHist
  /\ UNCHANGED <<metricVars, orderbook, now, feedVars>>

ValNext == ValSnapshot \/ Tick \/ Validate

ValSpec == ValInit /\ [][ValNext]_vars

(* ------------- the engine under a running clock ----------------------- *)
\* one level per call, the clock running between the calls
ClockInputs == {ba \in Inputs : Len(ba[1]) + Len(ba[2]) <= 1}
ClockSnapshot == \E ba \in ClockInputs : ApplySnapshot(ba[1], ba[2])
ClockDelta == \E ba \in ClockInputs : ApplyDelta(ba[1], ba[2])

ClockNext == ClockSnapshot \/ ClockDelta \/ Tick

ClockSpec == Init /\ [][ClockNext]_vars

(* ------------------- the monitor's metrics ----------------------------- *)
Slices == SeqsUpTo(Entries, MaxSlice)

\* metrics.update_avg_order_size(&levels); hist keeps the last non-empty
\* slice passed and the average the call found
UpdateAvgOrderSize(levels) ==
  /\ metrics' = update_avg_order_size(metrics, levels)
  /\ lastOp' = "update_avg_order_size"
  /\ hist' = [hist EXCEPT !.slice = IF levels = <<>> THEN hist.slice ELSE levels,
                          !.before = metrics.avg_order_size]
  /\ UNCHANGED <<orderbook, now, valVars, feedVars>>

MetricsNext == \E levels \in Slices : UpdateAvgOrderSize(levels)

MetricsSpec == Init /\ [][MetricsNext]_vars

\* the clock of the metrics' callers
Elapse ==
  /\ now < MaxClock
  /\ now' = now + 1
  /\ UNCHANGED <<bookVars, valVars, metricVars, feedVars>>

(* ------------------- whale detection ----------------------------------- *)
WhaleEntries == {<<1, 1>>, <<2, 5>>}
WhaleSlices == SeqsUpTo(WhaleEntries, MaxWhaleLevels)
Multipliers == {1, 3}

\* metrics.detect_whales(&bids, &asks, multiplier); hist keeps the
\* arguments, what the call returned and the ring it found
DetectWhales(bids, asks, multiplier) ==
  /\ Len(metrics.large_orders) < MaxRecorded
  /\ LET r == detect_whales(metrics, bids, asks, multiplier, now)
     IN /\ metrics' = r.metrics
        /\ hist' = [hist EXCEPT !.bids = bids, !.asks = asks, !.arg = multiplier,
                                !.returned = r.result,
                                !.recorded = metrics.large_orders]
  /\ lastOp' = "detect_whales"
  /\ UNCHANGED <<orderbook, now, valVars, feedVars>>

WhaleAverage == \E levels \in WhaleSlices : UpdateAvgOrderSize(levels)
WhaleDetect ==
  \E bids \in WhaleSlices, asks \in WhaleSlices, multiplier \in Multipliers :
    DetectWhales(bids, asks, multiplier)

WhaleNext == WhaleAverage \/ WhaleDetect

WhaleSpec == Init /\ [][WhaleNext]_vars

(* ------------------- the large-order ring ------------------------------ *)
\* n levels at prices 1..n: the first of quantity 1, the others of quantity 5
BurstLevels(n) == [i \in 1..n |-> <<i, IF i = 1 THEN 1 ELSE 5>>]
Bursts == {0, 6, MaxBurst}

\* metrics.update_avg_order_size(&[(1.0, 1.0)]): the average becomes 1.0
BurstAverage == UpdateAvgOrderSize(<<<<1, 1>>>>)

\* metrics.detect_whales(&bids, &asks, 3.0) with many levels; hist.detected
\* keeps every whale any call returned, in detection order
DetectBurst ==
  \E b \in Bursts, a \in Bursts :
    /\ Len(hist.detected) <= MaxLargeOrders
    /\ LET r == detect_whales(metrics, BurstLevels(b), BurstLevels(a), 3, now)
       IN /\ metrics' = r.metrics
          /\ hist' = [hist EXCEPT !.bids = BurstLevels(b), !.asks = BurstLevels(a),
                                  !.arg = 3, !.returned = r.result,
                                  !.recorded = metrics.large_orders,
                                  !.detected = hist.detected \o r.result]
    /\ lastOp' = "detect_whales"
    /\ UNCHANGED <<orderbook, now, valVars, feedVars>>

BurstNext == BurstAverage \/ DetectBurst \/ Elapse

BurstSpec == Init /\ [][BurstNext]_vars

(* ------------------- test_whale_detection ------------------------------ *)
\* n levels of quantity 1, the k-th of them of quantity 5 when k > 0
UnitLevels(n, k) == [i \in 1..n |-> <<1, IF i = k THEN 5 ELSE 1>>]

\* the test's bid_levels and ask_levels: one ask level has 5 times the
\* quantity of every other level on both sides
WhaleTestInputs ==
  {<<UnitLevels(b, 0), UnitLevels(n, k)>> :
     b \in 0..MaxWhaleLevels, n \in 1..MaxTestAsks, k \in 1..MaxTestAsks} \
  {<<UnitLevels(b, 0), UnitLevels(n, 0)>> :
     b \in 0..MaxWhaleLevels, n \in 1..MaxTestAsks}

WhaleTestInit ==
  /\ orderbook = OrderbookNew
  /\ now = 0
  /\ lastOp = "new"
  /\ \E ba \in WhaleTestInputs : hist = [NoHist EXCEPT !.bids = ba[1], !.asks = ba[2]]
  /\ validator = ValidatorNew(CHOOSE c \in Configs : c.enabled /\ c.min_depth_levels = 1)
  /\ validation = "none"
  /\ valid_returns = 0
  /\ monitor = MonitorNew(TRUE)
  /\ metrics = OrderbookMetricsNew
  /\ FeedIdle

\* metrics.update_avg_order_size(&bid_levels)
TestAverageBids ==
  /\ lastOp = "new"
  /\ metrics' = update_avg_order_size(metrics, hist.bids)
  /\ lastOp' = "average_bids"
  /\ UNCHANGED <<orderbook, now, valVars, feedVars, hist>>

\* metrics.update_avg_order_size(&ask_levels)
TestAverageAsks ==
  /\ lastOp = "average_bids"
  /\ metrics' = update_avg_order_size(metrics, hist.asks)
  /\ lastOp' = "average_asks"
  /\ UNCHANGED <<orderbook, now, valVars, feedVars, hist>>

\* metrics.detect_whales(&bid_levels, &ask_levels, 3.0)
TestDetect ==
  /\ lastOp = "average_asks"
  /\ LET r == detect_whales(metrics, hist.bids, hist.asks, 3, now)
     IN /\ metrics' = r.metrics
        /\ hist' = [hist EXCEPT !.arg = 3, !.returned = r.result]
  /\ lastOp' = "detect_whales"
  /\ UNCHANGED <<orderbook, now, valVars, feedVars>>

WhaleTestNext == TestAverageBids \/ TestAverageAsks \/ TestDetect

WhaleTestSpec == WhaleTestInit /\ [][WhaleTestNext]_vars

(* ------------------- the volume history -------------------------------- *)
Volumes == 0..MaxVolume
Windows == 0..MaxWindow

\* metrics.add_snapshot(bid_volume, ask_volume); hist keeps every snapshot
\* ever added
AddSnapshot(bid_volume, ask_volume) ==
  /\ metrics' = add_snapshot(metrics, bid_volume, ask_volume, now)
  /\ hist' = [hist EXCEPT !.added =
                 Append(hist.added, VolumeSnapshot(bid_volume, ask_volume, now))]
  /\ lastOp' = "add_snapshot"
  /\ UNCHANGED <<orderbook, now, valVars, feedVars>>

\* metrics.calculate_volume_delta(window_ms) (main.rs); hist keeps the
\* argument, the time of the call and what it returned
CalculateVolumeDelta(window_ms) ==
  /\ hist' = [hist EXCEPT !.arg = window_ms, !.at = now,
                          !.returned = calculate_volume_delta(metrics, window_ms, now)]
  /\ lastOp' = "calculate_volume_delta"
  /\ UNCHANGED <<orderbook, now, valVars, metricVars, feedVars>>

VolumeAdd ==
  /\ Len(metrics.volume_history) < MaxSnapshots
  /\ \E bid_volume \in Volumes : AddSnapshot(bid_volume, 1)
VolumeDelta == \E window_ms \in Windows : CalculateVolumeDelta(window_ms)

VolumeNext == VolumeAdd \/ Elapse \/ VolumeDelta

VolumeSpec == Init /\ [][VolumeNext]_vars

\* the ring filled past its size: the k-th snapshot added carries volumes
\* that tell it from its neighbours
RingAdd ==
  /\ Len(hist.added) < VolumeHistorySize + MaxEvicted
  /\ AddSnapshot(Len(hist.added) % 3, Len(hist.added) % 2)

RingNext == RingAdd \/ Tick

RingSpec == Init /\ [][RingNext]_vars

(* ------------------- price pressure ------------------------------------ *)
\* metrics.calculate_pressure(best_bid, best_ask); hist keeps the
\* arguments, what the call returned and that a call was made
CalculatePressure(best_bid, best_ask) ==
  /\ LET r == calculate_pressure(metrics, best_bid, best_ask, now)
     IN /\ metrics' = r.metrics
        /\ hist' = [hist EXCEPT !.bids = best_bid, !.asks = best_ask,
                                !.returned = r.result, !.called = TRUE]
  /\ lastOp' = "calculate_pressure"
  /\ UNCHANGED <<orderbook, now, valVars, feedVars>>

Pressure == \E best_bid \in Prices, best_ask \in Prices : CalculatePressure(best_bid, best_ask)

PressureNext == Pressure \/ Elapse

PressureSpec == Init /\ [][PressureNext]_vars

(* ------------- the feed: route_message, handler tasks, readers --------- *)
\* what one orderbook message carries: u is OrderbookData::update_id
FeedEntries == Prices \X {0, 1}
FeedMsgs ==
  {m \in [u : {0, 1}, bids : SeqsUpTo(FeedEntries, 1), asks : SeqsUpTo(FeedEntries, 1)] :
     Len(m.bids) + Len(m.asks) <= 1}

\* route_message: tokio::spawn of the handler on the message's data; the
\* loop of handle_stream then reads the next message
RouteMessage ==
  /\ Len(tasks) < MaxMsgs
  /\ \E m \in FeedMsgs :
       tasks' = Append(tasks, [pc |-> "spawned", msg |-> m, view |-> <<>>])
  /\ UNCHANGED <<metricVars, orderbook, now, valVars, bid_readers, ask_readers, reader,
                 lastOp, hist>>

TaskAt(k, pc) == k \in 1..Len(tasks) /\ tasks[k].pc = pc

\* the handler closure up to the end of the store loops of apply_snapshot
\* (update_id > 0) or apply_delta; a delta that raised no flag skips the
\* rebuild
HandlerStores(k) ==
  /\ TaskAt(k, "spawned")
  /\ LET m == tasks[k].msg
         b == DeltaBids(orderbook.bids, FALSE, m.bids, orderbook.best_bid)
         a == DeltaAsks(orderbook.asks, FALSE, m.asks, orderbook.best_ask)
     IN IF m.u > 0
        THEN /\ orderbook' = [orderbook EXCEPT
                                !.bids = SnapshotInsert(EmptyMap, m.bids),
                                !.asks = SnapshotInsert(EmptyMap, m.asks)]
             /\ tasks' = [tasks EXCEPT ![k].pc = "sort_bids"]
        ELSE /\ orderbook' = [orderbook EXCEPT !.bids = b.map, !.asks = a.map]
             /\ tasks' = [tasks EXCEPT ![k].pc =
                            IF b.changed \/ a.changed THEN "sort_bids" ELSE "stamp"]
  /\ UNCHANGED <<metricVars, now, valVars, bid_readers, ask_readers, reader, lastOp, hist>>

\* update_sorted_views: collect and sort the bids, publish the best bid
SortBids(k) ==
  /\ TaskAt(k, "sort_bids")
  /\ LET sb == SortDesc(orderbook.bids, now)
     IN /\ orderbook' = [orderbook EXCEPT !.best_bid = PublishBest(sb, orderbook.best_bid)]
        /\ tasks' = [tasks EXCEPT ![k].pc = "write_bids", ![k].view = sb]
  /\ UNCHANGED <<metricVars, now, valVars, bid_readers, ask_readers, reader, lastOp, hist>>

\* parking_lot::RwLock: a writer first takes the lock's writer bit, which
\* keeps other writers and new readers out, and then waits until the
\* readers that are in have left. The handler tasks that own a writer bit:
BidWriters == {k \in 1..Len(tasks) : tasks[k].pc \in {"drain_bids", "hold_bids"}}
AskWriters == {k \in 1..Len(tasks) : tasks[k].pc \in {"drain_asks", "hold_asks"}}

\* self.sorted_bids.write(), first half: the writer bit
LockBids(k) ==
  /\ TaskAt(k, "write_bids")
  /\ BidWriters = {}
  /\ tasks' = [tasks EXCEPT ![k].pc = "drain_bids"]
  /\ UNCHANGED <<metricVars, orderbook, now, valVars, bid_readers, ask_readers, reader,
                 lastOp, hist>>

\* second half: write() returns once no reader holds the lock
DrainBids(k) ==
  /\ TaskAt(k, "drain_bids")
  /\ bid_readers = {}
  /\ tasks' = [tasks EXCEPT ![k].pc = "hold_bids"]
  /\ UNCHANGED <<metricVars, orderbook, now, valVars, bid_readers, ask_readers, reader,
                 lastOp, hist>>

\* *guard = bids; the guard is a temporary, dropped at the end of the
\* statement
WriteBids(k) ==
  /\ TaskAt(k, "hold_bids")
  /\ orderbook' = [orderbook EXCEPT !.sorted_bids = tasks[k].view]
  /\ tasks' = [tasks EXCEPT ![k].pc = "sort_asks", ![k].view = <<>>]
  /\ UNCHANGED <<metricVars, now, valVars, bid_readers, ask_readers, reader, lastOp, hist>>

SortAsks(k) ==
  /\ TaskAt(k, "sort_asks")
  /\ LET sa == SortAsc(orderbook.asks, now)
     IN /\ orderbook' = [orderbook EXCEPT !.best_ask = PublishBest(sa, orderbook.best_ask)]
        /\ tasks' = [tasks EXCEPT ![k].pc = "write_asks", ![k].view = sa]
  /\ UNCHANGED <<metricVars, now, valVars, bid_readers, ask_readers, reader, lastOp, hist>>

\* self.sorted_asks.write()
LockAsks(k) ==
  /\ TaskAt(k, "write_asks")
  /\ AskWriters = {}
  /\ tasks' = [tasks EXCEPT ![k].pc = "drain_asks"]
  /\ UNCHANGED <<metricVars, orderbook, now, valVars, bid_readers, ask_readers, reader,
                 lastOp, hist>>

DrainAsks(k) ==
  /\ TaskAt(k, "drain_asks")
  /\ ask_readers = {}
  /\ tasks' = [tasks EXCEPT ![k].pc = "hold_asks"]
  /\ UNCHANGED <<metricVars, orderbook, now, valVars, bid_readers, ask_readers, reader,
                 lastOp, hist>>

\* *guard = asks
WriteAsks(k) ==
  /\ TaskAt(k, "hold_asks")
  /\ orderbook' = [orderbook EXCEPT !.sorted_asks = tasks[k].view]
  /\ tasks' = [tasks EXCEPT ![k].pc = "stamp", ![k].view = <<>>]
  /\ UNCHANGED <<metricVars, now, valVars, bid_readers, ask_readers, reader, lastOp, hist>>

\* last_update_time.store(now), and update_count.fetch_add(1) in a snapshot
Stamp(k) ==
  /\ TaskAt(k, "stamp")
  /\ orderbook' = [orderbook EXCEPT
                     !.last_update_time = now,
                     !.update_count = IF tasks[k].msg.u > 0 THEN @ + 1 ELSE @]
  /\ tasks' = [tasks EXCEPT ![k].pc = "done"]
  /\ UNCHANGED <<metricVars, now, valVars, bid_readers, ask_readers, reader, lastOp, hist>>

\* imbalance / liquidity_depth: let bids = self.sorted_bids.read();
\* RwLock::read returns once no writer owns the writer bit
ReadLockBids(r) ==
  /\ reader[r] = "idle"
  /\ BidWriters = {}
  /\ reader' = [reader EXCEPT ![r] = "bids"]
  /\ bid_readers' = bid_readers \cup {r}
  /\ UNCHANGED <<metricVars, orderbook, now, valVars, tasks, ask_readers, lastOp, hist>>

\* let asks = self.sorted_asks.read()
ReadLockAsks(r) ==
  /\ reader[r] = "bids"
  /\ AskWriters = {}
  /\ reader' = [reader EXCEPT ![r] = "both"]
  /\ ask_readers' = ask_readers \cup {r}
  /\ UNCHANGED <<metricVars, orderbook, now, valVars, tasks, bid_readers, lastOp, hist>>

\* mutant: the guard of sorted_bids is never dropped
ReadUnlock_leaking_bids(r) ==
  /\ reader[r] = "both"
  /\ reader' = [reader EXCEPT ![r] = "idle"]
  /\ ask_readers' = ask_readers \ {r}
  /\ UNCHANGED <<metricVars, orderbook, now, valVars, tasks, bid_readers, lastOp, hist>>

\* the sums are taken and both guards dropped at the end of the function
ReadUnlock(r) ==
  /\ reader[r] = "both"
  /\ reader' = [reader EXCEPT ![r] = "idle"]
  /\ bid_readers' = bid_readers \ {r}
  /\ ask_readers' = ask_readers \ {r}
  /\ UNCHANGED <<metricVars, orderbook, now, valVars, tasks, lastOp, hist>>

HandlerStep ==
  \E k \in 1..MaxMsgs :
    \/ HandlerStores(k)
    \/ SortBids(k)
    \/ LockBids(k)
    \/ DrainBids(k)
    \/ WriteBids(k)
    \/ SortAsks(k)
    \/ LockAsks(k)
    \/ DrainAsks(k)
    \/ WriteAsks(k)
    \/ Stamp(k)

ReaderStep ==
  \E r \in Readers : ReadLockBids(r) \/ ReadLockAsks(r) \/ ReadUnlock(r)

FeedNext == RouteMessage \/ HandlerStep \/ ReaderStep

FeedSpec == Init /\ [][FeedNext]_vars

\* scheduling: the tokio runtime runs every spawned task and the monitor
\* thread keeps running, so a handler or a started read that stays able to
\* take its next step takes it; nothing is assumed about when a reader
\* starts its next read
FeedFairness ==
  /\ \A k \in 1..MaxMsgs :
       WF_vars(HandlerStores(k) \/ SortBids(k) \/ LockBids(k) \/ DrainBids(k)
                 \/ WriteBids(k) \/ SortAsks(k) \/ LockAsks(k) \/ DrainAsks(k)
                 \/ WriteAsks(k) \/ Stamp(k))
  /\ \A r \in Readers : WF_vars(ReadLockAsks(r) \/ ReadUnlock(r))

\* the messages that matter to the locks: a snapshot, a delta that raises
\* a changed flag and a delta that raises none
LockMsgs == {m \in FeedMsgs : m.asks = <<>> /\ \A i \in 1..Len(m.bids) : m.bids[i][1] = 1}

RouteLockMessage ==
  /\ Len(tasks) < MaxMsgs
  /\ \E m \in LockMsgs :
       tasks' = Append(tasks, [pc |-> "spawned", msg |-> m, view |-> <<>>])
  /\ UNCHANGED <<metricVars, orderbook, now, valVars, bid_readers, ask_readers, reader,
                 lastOp, hist>>

LockNext == RouteLockMessage \/ HandlerStep \/ ReaderStep

LockSpec == Init /\ [][LockNext]_vars /\ FeedFairness

(* ------------- the monitor loop ---------------------------------------- *)
RiskDistances == {1}
\* the side and the order's fate matter only when should_trade accepts
TickInputs ==
  {inp \in [should_trade : BOOLEAN, side : {"None", "Buy", "Sell"},
            order : {"Ok", "Err"},
            sl_distance : RiskDistances, tp_distance : RiskDistances] :
     /\ ~inp.should_trade => inp.side = "None"
     /\ inp.side = "None" => inp.order = "Err"}

\* the snapshots the feed delivers between the monitor's ticks
MonitorInputs == {ba \in ValInputs : \A i \in 1..2 : \A j \in 1..Len(ba[i]) : ba[i][j][2] = 1}
MonitorSnapshot == \E ba \in MonitorInputs : ApplySnapshot(ba[1], ba[2])

MonitorInit ==
  /\ orderbook = OrderbookNew
  /\ now = 0
  /\ lastOp = "new"
  /\ hist = NoHist
  /\ validator \in {ValidatorNew(c) : c \in Configs}
  /\ validation = "none"
  /\ valid_returns = 0
  /\ monitor \in {MonitorNew(keep) : keep \in BOOLEAN}
  /\ metrics = OrderbookMetricsNew
  /\ FeedIdle

\* interval.tick().await and one pass of the loop; hist.tick keeps the
\* monitor's state before the pass, the inputs and what the pass did
MonitorTick ==
  /\ ~validator.panicked
  /\ Len(validator.measurements) < MaxValidTicks
  /\ \E inp \in TickInputs :
       LET r == monitor_tick(monitor, orderbook, validator, validation, now, inp)
       IN /\ monitor' = r.monitor
          /\ validator' = r.validator
          /\ validation' = r.validation
          /\ hist' = [NoHist EXCEPT !.tick =
                        [before |-> monitor, inp |-> inp, skipped |-> r.skipped,
                         cooldown |-> r.cooldown, placed |-> r.placed,
                         exit |-> r.exit]]
  /\ lastOp' = "monitor_tick"
  /\ UNCHANGED <<metricVars, orderbook, now, valid_returns, feedVars>>

MonitorNext == MonitorSnapshot \/ Tick \/ MonitorTick

MonitorSpec == MonitorInit /\ [][MonitorNext]_vars

(* ------------- the orderbook subscription handler --------------------- *)
\* a level of a message is a pair of strings; `ok` says whether both parse
\* as f64
RawLevels == Prices \X {0, 1} \X BOOLEAN

\* OrderbookData::parse_levels: filter_map keeps the levels whose two
\* strings parse, in order
RECURSIVE ParseSide(_)
ParseSide(raw) ==
  IF raw = <<>> THEN <<>>
  ELSE (IF raw[1][3] THEN <<<<raw[1][1], raw[1][2]>>>> ELSE <<>>)
         \o ParseSide(Tail(raw))

parse_levels(data) == <<ParseSide(data.bids), ParseSide(data.asks)>>

\* mutant: every message is applied as a delta
handler_always_delta(ob, data, t) ==
  IF ~data.ok THEN ob
  ELSE LET levels == parse_levels(data)
       IN apply_delta(ob, levels[1], levels[2], t)

\* the closure subscribed to orderbook.50.<symbol>: a value that is no
\* OrderbookData is logged and dropped
handler(ob, data, t) ==
  IF ~data.ok THEN ob
  ELSE LET levels == parse_levels(data)
       IN IF data.update_id > 0
          THEN apply_snapshot(ob, levels[1], levels[2], t)
          ELSE apply_delta(ob, levels[1], levels[2], t)

HandlerMsgs ==
  {d \in [ok : BOOLEAN, update_id : 0..MaxUpdates,
          bids : SeqsUpTo(RawLevels, 1), asks : SeqsUpTo(RawLevels, 1)] :
     /\ Len(d.bids) + Len(d.asks) <= 1
     /\ ~d.ok => (d.update_id = 0 /\ d.bids = <<>> /\ d.asks = <<>>)}

\* one message handled from start to end; hist keeps the message and the
\* book the handler found
HandleMessage(data) ==
  /\ orderbook.update_count < MaxUpdates
  /\ orderbook' = handler(orderbook, data, now)
  /\ lastOp' = "handler"
  /\ hist' = [hist EXCEPT !.msg = data, !.prev = orderbook]
  /\ UNCHANGED <<metricVars, now, valVars, feedVars>>

HandlerNext == \E data \in HandlerMsgs : HandleMessage(data)

HandlerSpec == Init /\ [][HandlerNext]_vars

(* ------------- one producer at a time and best_bid_ask ----------------- *)
\* validate's test of the pair best_bid_ask returned (validation.rs:92)
CrossedPair(bid, ask) == FGe(bid, ask) /\ FNe(bid, 0) /\ FNe(ask, NaN)

\* the book is crossed: in what it publishes or in what its store holds
BookCrossed(ob) ==
  \/ CrossedPair(ob.best_bid, ob.best_ask)
  \/ /\ DOMAIN ob.bids # {} /\ DOMAIN ob.asks # {}
     /\ SetMax(DOMAIN ob.bids) >= SetMin(DOMAIN ob.asks)

AllCompleted == \A k \in 1..Len(tasks) : tasks[k].pc = "done"
CompletedCount == Cardinality({k \in 1..Len(tasks) : tasks[k].pc = "done"})

CrossEntries == Prices \X {1}
CrossMsgs ==
  [u : {0, 1}, bids : SeqsUpTo(CrossEntries, 1), asks : SeqsUpTo(CrossEntries, 1)]

\* a message is routed when the handlers of the earlier ones have returned:
\* one producer update at a time; hist keeps whether the book was crossed
\* when the update started
RouteOne ==
  /\ Len(tasks) < MaxMsgs
  /\ AllCompleted
  /\ \E m \in CrossMsgs :
       tasks' = Append(tasks, [pc |-> "spawned", msg |-> m, view |-> <<>>])
  /\ hist' = [hist EXCEPT !.seen = <<>>, !.crossed_before = BookCrossed(orderbook)]
  /\ UNCHANGED <<metricVars, orderbook, now, valVars, bid_readers, ask_readers, reader,
                 lastOp>>

\* best_bid_ask: let bid = f64::from_bits(self.best_bid.load(Relaxed))
LoadBid(r) ==
  /\ reader[r] = "idle"
  /\ reader' = [reader EXCEPT ![r] = "bid_loaded"]
  /\ hist' = [hist EXCEPT !.loaded[r] = [bid |-> orderbook.best_bid,
                                         completed |-> CompletedCount]]
  /\ UNCHANGED <<metricVars, orderbook, now, valVars, tasks, bid_readers, ask_readers,
                 lastOp>>

\* let ask = f64::from_bits(self.best_ask.load(Relaxed)); (bid, ask).
\* hist.seen keeps a pair that validate takes for crossed when the two loads
\* ran next to at most one producer update
LoadAsk(r) ==
  /\ reader[r] = "bid_loaded"
  /\ reader' = [reader EXCEPT ![r] = "idle"]
  /\ LET bid == hist.loaded[r].bid
         ask == orderbook.best_ask
     IN hist' = [hist EXCEPT !.seen =
                   IF /\ CrossedPair(bid, ask)
                      /\ Len(tasks) - hist.loaded[r].completed <= 1
                   THEN <<bid, ask>> ELSE hist.seen]
  /\ lastOp' = "best_bid_ask"
  /\ UNCHANGED <<metricVars, orderbook, now, valVars, tasks, bid_readers, ask_readers>>

BestBidAsk == \E r \in Readers : LoadBid(r) \/ LoadAsk(r)

CrossNext == RouteOne \/ HandlerStep \/ BestBidAsk

CrossSpec == Init /\ [][CrossNext]_vars

(* ======================== properties of the engine ===================== *)
\* what the store says the best prices are; an empty side has the value
\* Orderbook::new publishes (0.0 for the bid, from_bits(u64::MAX) for the ask)
StoreBestBid(ob) == IF DOMAIN ob.bids = {} THEN 0 ELSE SetMax(DOMAIN ob.bids)
StoreBestAsk(ob) == IF DOMAIN ob.asks = {} THEN NaN ELSE SetMin(DOMAIN ob.asks)

BestPublished(ob) ==
  /\ ob.best_bid = StoreBestBid(ob)
  /\ ob.best_ask = StoreBestAsk(ob)

LevelPrices(levels) == {levels[i].price : i \in 1..Len(levels)}
PriceQty(levels) == [i \in 1..Len(levels) |-> <<levels[i].price, levels[i].quantity>>]

Depths == 0..(MaxPrice + 1)

\* C1: after apply_snapshot, best_bid_ask() is (max bid price, min ask price)
\* of the store, and the sentinel on a side the snapshot left empty.
C1_BestAfterSnapshot == lastOp = "apply_snapshot" => BestPublished(orderbook)

\* C2: a snapshot leaves any engine with the store, the sorted views (prices
\* and quantities) and the published best prices that it leaves a new engine
\* with.
Repaired(ob) ==
  <<ob.bids, ob.asks, PriceQty(ob.sorted_bids), PriceQty(ob.sorted_asks),
    ob.best_bid, ob.best_ask>>

C2_SnapshotRepairs ==
  [][\A ba \in Inputs :
       ApplySnapshot(ba[1], ba[2]) =>
         Repaired(orderbook') =
           Repaired(apply_snapshot(OrderbookNew, ba[1], ba[2], now))]_vars

\* C3: applying a snapshot a second time leaves best_bid_ask(), imbalance(d)
\* and liquidity_depth(d), for every depth d, as the first application left
\* them.
Observed(ob) ==
  <<best_bid_ask(ob),
    [d \in Depths |-> imbalance(ob, d)],
    [d \in Depths |-> liquidity_depth(ob, d)]>>

C3_SnapshotIdempotent ==
  \A ba \in Inputs :
    LET once == apply_snapshot(orderbook, ba[1], ba[2], now)
        twice == apply_snapshot(once, ba[1], ba[2], now)
    IN Observed(twice) = Observed(once)

C3_Witness ==
  /\ hist.repeat
  /\ orderbook.update_count = 2
  /\ orderbook.sorted_bids # <<>>
  /\ orderbook.sorted_asks # <<>>

\* C4 as stated: a delta entry (price, 0) for a level that is in the store
\* removes the level from the store and from the sorted view of its side,
\* whatever else the delta carries.
Absent(ob, side, p) ==
  IF side = "bid"
  THEN p \notin DOMAIN ob.bids /\ p \notin LevelPrices(ob.sorted_bids)
  ELSE p \notin DOMAIN ob.asks /\ p \notin LevelPrices(ob.sorted_asks)

HasZero(levels, p) == \E i \in 1..Len(levels) : levels[i] = <<p, 0>>

C4_ZeroDeletesAlways ==
  [][lastOp = "apply_snapshot" =>
       \A ba \in Inputs :
         ApplyDelta(ba[1], ba[2]) =>
           /\ \A p \in DOMAIN orderbook.bids :
                HasZero(ba[1], p) => Absent(orderbook', "bid", p)
           /\ \A p \in DOMAIN orderbook.asks :
                HasZero(ba[2], p) => Absent(orderbook', "ask", p)]_vars

\* C4 amended: the level is removed from the store and from the sorted view
\* when the (price, 0) entry is the last entry of the delta that names that
\* price on that side.
C4_ZeroDeletes ==
  \A ba \in Inputs :
    LET after == apply_delta(orderbook, ba[1], ba[2], now)
    IN /\ \A p \in DOMAIN orderbook.bids :
            LastIsZero(ba[1], p) => Absent(after, "bid", p)
       /\ \A p \in DOMAIN orderbook.asks :
            LastIsZero(ba[2], p) => Absent(after, "ask", p)

C4_Witness ==
  /\ lastOp = "apply_delta"
  /\ hist.zeroed
  /\ orderbook.update_count > 0

\* C5: a delta of one bid (quantity > 0) above the published best bid makes
\* that price the best bid; the delta that then removes it with quantity 0
\* makes the best bid the highest bid price that remains.
C5_RaiseThenRevert ==
  /\ hist.raised # 0 => orderbook.best_bid = hist.raised
  /\ hist.reverted =>
       /\ DOMAIN orderbook.bids # {}
       /\ orderbook.best_bid = SetMax(DOMAIN orderbook.bids)

C5_Witness ==
  /\ hist.reverted
  /\ orderbook.update_count > 0
  /\ orderbook.best_bid = 1

\* C6: no level of the store has a quantity <= 0.
C6_NoNonPositiveLevel ==
  /\ \A p \in DOMAIN orderbook.bids : orderbook.bids[p] > 0
  /\ \A p \in DOMAIN orderbook.asks : orderbook.asks[p] > 0

\* C7: after apply_delta the published best bid is the highest bid price of
\* the store and the published best ask the lowest ask price of the store,
\* or the side's sentinel when that side of the store is empty.
C7_BestAfterDelta == lastOp = "apply_delta" => BestPublished(orderbook)

(* ======================= properties of the validator =================== *)
\* the conditions of section 4.3, each on its own
Crossed(ob) ==
  ob.best_bid # 0 /\ ob.best_ask # NaN /\ ob.best_bid >= ob.best_ask
Uninitialised(ob) == ob.best_bid = 0 \/ ob.best_ask = NaN
Thin(v, ob) ==
  \/ Len(ob.sorted_bids) < v.config.min_depth_levels
  \/ Len(ob.sorted_asks) < v.config.min_depth_levels
Stale(v, ob, t) == t - ob.last_update_time > v.config.max_data_age_ms
Calibrated(v) == Len(v.measurements) >= CalibrationMin
Wide(v, ob) ==
  /\ Calibrated(v)
  /\ RGt(spread_pct(ob), RMul(v.normal_spread_range[2], v.config.max_spread_multiplier))
Low(v, ob) ==
  /\ Calibrated(v)
  /\ RGt(RMul(<<v.normal_liquidity_range[1], 1>>, v.config.min_liquidity_multiplier),
         <<liquidity_depth(ob, LiquidityDepth), 1>>)

\* C10 as stated: validate (enabled) returns the first match of PriceAnomaly,
\* InsufficientDepth (uninitialised or thin), StaleData, WideSpread,
\* LowLiquidity, else Valid; a thin and stale book is InsufficientDepth.
\* (Stated for a book whose best ask has been published.)
ClaimedClass(v, ob, t) ==
  IF Crossed(ob) THEN "PriceAnomaly"
  ELSE IF Uninitialised(ob) \/ Thin(v, ob) THEN "InsufficientDepth"
  ELSE IF Stale(v, ob, t) THEN "StaleData"
  ELSE IF Wide(v, ob) THEN "WideSpread"
  ELSE IF Low(v, ob) THEN "LowLiquidity"
  ELSE "Valid"

CodeClass(v, ob, t) ==
  IF Crossed(ob) THEN "PriceAnomaly"
  ELSE IF ob.best_bid = 0 \/ ob.best_ask = 0 THEN "InsufficientDepth"
  ELSE IF Stale(v, ob, t) THEN "StaleData"
  ELSE IF Thin(v, ob) THEN "InsufficientDepth"
  ELSE IF Wide(v, ob) THEN "WideSpread"
  ELSE IF Low(v, ob) THEN "LowLiquidity"
  ELSE "Valid"

NotValid == {"PriceAnomaly", "InsufficientDepth", "StaleData", "WideSpread",
             "LowLiquidity"}

\* the measurement a Valid call records
Measured(ob) ==
  [spread_pct |-> spread_pct(ob), liquidity |-> liquidity_depth(ob, LiquidityDepth)]

\* C11: whenever both published best prices are initialised and
\* best_bid >= best_ask, validate (enabled) returns PriceAnomaly, whatever
\* else holds (thin, stale, calibrated or not), and leaves the calibration
\* state as it was.
C11_CrossedFirst ==
  [][(Validate /\ validator.config.enabled /\ Crossed(orderbook)) =>
       (validation' = "PriceAnomaly" /\ validator' = validator)]_vars

C11_Witness ==
  /\ lastOp = "validate"
  /\ validation = "PriceAnomaly"
  /\ validator.config.enabled
  /\ Crossed(orderbook)
  /\ Thin(validator, orderbook)
  /\ Stale(validator, orderbook, now)

\* C12: for an uncrossed, initialised, fresh book, validate (enabled)
\* returns InsufficientDepth when a sorted view has fewer than
\* min_depth_levels levels, and Valid when both have at least
\* min_depth_levels and no measurement is held.
C12_DepthGate ==
  [][(/\ Validate
      /\ validator.config.enabled
      /\ ~Crossed(orderbook)
      /\ ~Uninitialised(orderbook)
      /\ ~Stale(validator, orderbook, now)) =>
       /\ Thin(validator, orderbook) => validation' = "InsufficientDepth"
       /\ (~Thin(validator, orderbook) /\ validator.measurements = <<>>) =>
            validation' = "Valid"]_vars

C12_Witness ==
  /\ lastOp = "validate"
  /\ validation = "InsufficientDepth"
  /\ validator.config.enabled
  /\ ~Crossed(orderbook)
  /\ ~Uninitialised(orderbook)
  /\ ~Stale(validator, orderbook, now)
  /\ Thin(validator, orderbook)

\* C13: whenever the published best bid or the published best ask still
\* holds its sentinel (bid 0.0, ask the value Orderbook::new wrote),
\* validate (enabled) returns InsufficientDepth, whatever the other side,
\* the data age and min_depth_levels are.
C13_SentinelNotReady ==
  [][(Validate /\ validator.config.enabled /\ Uninitialised(orderbook)) =>
       validation' = "InsufficientDepth"]_vars

\* C14: a validate call that returns PriceAnomaly, InsufficientDepth,
\* StaleData, WideSpread or LowLiquidity leaves the measurement ring and both
\* normal ranges unchanged; an enabled call that returns Valid appends
\* exactly one (spread_pct, liquidity) measurement.
C14_CalibratesOnValidOnly ==
  [][Validate =>
       /\ validation' \in NotValid => validator' = validator
       /\ (validator.config.enabled /\ validation' = "Valid") =>
            validator'.measurements =
              Append(validator.measurements, Measured(orderbook))]_vars

C14_Witness ==
  /\ lastOp = "validate"
  /\ validation = "Valid"
  /\ validator.config.enabled
  /\ Len(validator.measurements) > CalibrationMin
  /\ validator.measurements[Len(validator.measurements)] = Measured(orderbook)

\* C15: while fewer than 10 measurements are held, validate never returns
\* WideSpread or LowLiquidity, and an initialised, uncrossed, fresh book with
\* at least min_depth_levels levels per side is classified Valid and its
\* measurement recorded.
C15_BaselineUnconditional ==
  [][(Validate /\ validator.config.enabled /\ ~Calibrated(validator)) =>
       /\ validation' \notin {"WideSpread", "LowLiquidity"}
       /\ (/\ ~Crossed(orderbook)
           /\ ~Uninitialised(orderbook)
           /\ ~Stale(validator, orderbook, now)
           /\ ~Thin(validator, orderbook)) =>
            /\ validation' = "Valid"
            /\ validator'.measurements =
                 Append(validator.measurements, Measured(orderbook))]_vars

\* C16: after every validate call that returns, is_calibrated() is true
\* exactly when at least 10 enabled validate calls have returned Valid (one
\* measurement each), and a validate call never makes it false again.
C16_CalibratedFromTen ==
  [][(Validate /\ validation' # "panic") =>
       /\ is_calibrated(validator') <=> valid_returns' >= CalibrationMin
       /\ is_calibrated(validator) => is_calibrated(validator')]_vars

C16_Witness ==
  /\ lastOp = "validate"
  /\ validation \in NotValid
  /\ is_calibrated(validator)
  /\ valid_returns = CalibrationMin

\* every measurement held is the same pair
OneBook(v) ==
  \A i \in 1..Len(v.measurements) : v.measurements[i] = v.measurements[1]

C18_CountsSnapshots ==
  [][/\ (now' = now /\ lastOp' = "apply_snapshot") =>
          orderbook'.update_count = orderbook.update_count + 1
     /\ (now' = now /\ lastOp' = "apply_delta") =>
          /\ orderbook'.update_count = orderbook.update_count
          /\ orderbook'.last_update_time = now
     /\ orderbook'.update_count >= orderbook.update_count]_vars

C18_Witness ==
  /\ lastOp = "apply_delta"
  /\ orderbook.update_count = 1
  /\ orderbook.last_update_time = 1

\* C19: for every reachable book and every depth, imbalance(depth) lies in
\* [-1, 1], and is 0.0 when the top-depth volumes of both sides are zero.
C19_ImbalanceBounded ==
  \A d \in Depths :
    LET r == imbalance(orderbook, d)
    IN /\ r[2] # 0
       /\ r[1] * r[1] <= r[2] * r[2]
       /\ (SumQty(orderbook.sorted_bids, d) = 0 /\ SumQty(orderbook.sorted_asks, d) = 0)
            => r = <<0, 1>>

(* ======================= properties of the metrics ===================== *)
\* the mean quantity of a non-empty slice, as <<total, len>>
RECURSIVE QtySum(_, _)
QtySum(levels, i) == IF i = 0 THEN 0 ELSE QtySum(levels, i - 1) + levels[i][2]
MeanQty(levels) == <<QtySum(levels, Len(levels)), Len(levels)>>

\* C20: after any sequence of update_avg_order_size calls the average is
\* the mean quantity of the last non-empty slice passed (0.0 when there was
\* none), and a call with an empty slice leaves it unchanged.
C20_Overwrites ==
  metrics.avg_order_size =
    IF hist.slice = <<>> THEN <<0, 1>> ELSE MeanQty(hist.slice)

C20_Witness ==
  /\ lastOp = "update_avg_order_size"
  /\ hist.slice # <<>>
  /\ hist.before # <<0, 1>>
  /\ hist.before # metrics.avg_order_size
  /\ metrics.avg_order_size = MeanQty(hist.slice)

\* the levels of one side above avg * multiplier, up to position i, in input
\* order, with their side
RECURSIVE Above(_, _, _, _, _)
Above(levels, i, side, avg, multiplier) ==
  IF i = 0 THEN <<>>
  ELSE Above(levels, i - 1, side, avg, multiplier)
         \o (IF levels[i][2] * avg[2] > avg[1] * multiplier
             THEN <<[side |-> side, price |-> levels[i][1], size |-> levels[i][2]]>>
             ELSE <<>>)

Tagged(orders) ==
  [i \in 1..Len(orders) |->
     [side |-> orders[i].side, price |-> orders[i].price, size |-> orders[i].size]]

\* C21: detect_whales returns exactly the levels whose quantity is strictly
\* greater than avg_order_size * m, bid levels first, then ask levels, each
\* in input order, with their side and size_multiplier = quantity /
\* avg_order_size, and records them; with avg_order_size = 0 it returns and
\* records nothing.
C21_WhalesExactly ==
  lastOp = "detect_whales" =>
    LET avg == metrics.avg_order_size
        returned == hist.returned
    IN IF avg[1] = 0
       THEN returned = <<>> /\ metrics.large_orders = hist.recorded
       ELSE /\ Tagged(returned) =
                 Above(hist.bids, Len(hist.bids), "Bid", avg, hist.arg)
                   \o Above(hist.asks, Len(hist.asks), "Ask", avg, hist.arg)
            /\ \A i \in 1..Len(returned) :
                 returned[i].size_multiplier[1] * avg[1]
                   = returned[i].size * avg[2] * returned[i].size_multiplier[2]
            /\ Len(hist.recorded \o returned) <= MaxLargeOrders =>
                 metrics.large_orders = hist.recorded \o returned

C21_Witness ==
  /\ lastOp = "detect_whales"
  /\ hist.arg = 3
  /\ metrics.avg_order_size[1] = metrics.avg_order_size[2]
  /\ Len(hist.returned) >= 2
  /\ hist.returned[1].side = "Bid"
  /\ hist.returned[Len(hist.returned)].side = "Ask"
  /\ \A i \in 1..Len(hist.returned) :
       /\ hist.returned[i].size = 5
       /\ hist.returned[i].size_multiplier[1] = 5 * hist.returned[i].size_multiplier[2]

Qualifying(history, cutoff) ==
  {i \in 1..Len(history) : history[i].timestamp_ms >= cutoff}

\* C23: calculate_volume_delta(window_ms) returns 0.0 with fewer than two
\* snapshots; otherwise, with old the earliest retained snapshot whose
\* timestamp is >= now - window_ms (the oldest retained one when none
\* qualifies) and current the newest, it returns (current.total - old.total)
\* per elapsed second, and 0.0 when no time elapsed between them.
C23_VolumeDelta ==
  lastOp = "calculate_volume_delta" =>
    LET history == metrics.volume_history
        n == Len(history)
        within == Qualifying(history, SystemTimeMs(hist.at) - hist.arg)
        old == history[IF within = {} THEN 1 ELSE SetMin(within)]
        elapsed_ms == history[n].timestamp_ms - old.timestamp_ms
    IN IF n < 2 \/ elapsed_ms = 0 THEN hist.returned[1] = 0 /\ hist.returned[2] # 0
       ELSE /\ hist.returned[2] > 0
            /\ hist.returned[1] * elapsed_ms
                 = (history[n].total_volume - old.total_volume) * 1000 * hist.returned[2]

C23_Witness ==
  /\ lastOp = "calculate_volume_delta"
  /\ Len(metrics.volume_history) >= 2
  /\ Qualifying(metrics.volume_history, SystemTimeMs(hist.at) - hist.arg) = {}
  /\ hist.returned[1] # 0

Reference(m) == <<m.prev_best_bid, m.prev_best_ask, m.prev_timestamp_ms>>

\* C24: the first calculate_pressure call returns (0, 0) and stores its
\* prices as reference; a later call after a positive elapsed time returns
\* the change of each price since the reference per elapsed second and
\* replaces the reference; a later call with no time elapsed returns what
\* the previous call returned and leaves the reference unchanged.
C24_Pressure ==
  [][(lastOp' = "calculate_pressure" /\ now' = now) =>
       LET best_bid == hist'.bids
           best_ask == hist'.asks
           elapsed_ms == SystemTimeMs(now) - metrics.prev_timestamp_ms
           returned == hist'.returned
       IN IF ~hist.called
          THEN /\ returned = <<(<<0, 1>>), (<<0, 1>>)>>
               /\ Reference(metrics') = <<best_bid, best_ask, SystemTimeMs(now)>>
          ELSE IF elapsed_ms > 0
          THEN /\ returned[1][2] > 0 /\ returned[2][2] > 0
               /\ returned[1][1] * elapsed_ms
                    = (best_bid - metrics.prev_best_bid) * 1000 * returned[1][2]
               /\ returned[2][1] * elapsed_ms
                    = (best_ask - metrics.prev_best_ask) * 1000 * returned[2][2]
               /\ Reference(metrics') = <<best_bid, best_ask, SystemTimeMs(now)>>
          ELSE /\ returned = hist.returned
               /\ Reference(metrics') = Reference(metrics)]_vars

C24_Witness ==
  /\ lastOp = "calculate_pressure"
  /\ hist.called
  /\ hist.returned[1][1] > 0
  /\ hist.returned[2][1] < 0
  /\ Reference(metrics) = <<hist.bids, hist.asks, SystemTimeMs(now)>>

\* C30: the volume history holds at most 60 snapshots, exactly the most
\* recently added ones in insertion order, each with total_volume =
\* bid_volume + ask_volume.
C30_VolumeRing ==
  LET history == metrics.volume_history
      added == hist.added
  IN /\ Len(history) <= 60
     /\ Len(history) = (IF Len(added) < 60 THEN Len(added) ELSE 60)
     /\ \A i \in 1..Len(history) :
          /\ history[i] = added[Len(added) - Len(history) + i]
          /\ history[i].total_volume = history[i].bid_volume + history[i].ask_volume

C30_Witness ==
  /\ lastOp = "add_snapshot"
  /\ Len(hist.added) > VolumeHistorySize
  /\ Len(metrics.volume_history) = VolumeHistorySize
  /\ metrics.volume_history[1] = hist.added[Len(hist.added) - VolumeHistorySize + 1]
  /\ metrics.volume_history[1] # hist.added[1]

(* ================== properties of the sorted views ===================== *)
\* what apply_delta compares: an entry of quantity 0, a bid above the
\* published best bid, an ask below the published best ask
Triggers(ob, bids, asks) ==
  \/ \E i \in 1..Len(bids) : bids[i][2] = 0 \/ FGt(bids[i][1], ob.best_bid)
  \/ \E i \in 1..Len(asks) : asks[i][2] = 0 \/ FLt(asks[i][1], ob.best_ask)

\* the prices of a view, in its order
PricesOf(levels) == [i \in 1..Len(levels) |-> levels[i].price]

StrictlyDescending(ps) == \A i \in 1..(Len(ps) - 1) : ps[i] > ps[i + 1]
StrictlyAscending(ps) == \A i \in 1..(Len(ps) - 1) : ps[i] < ps[i + 1]

\* the view holds the store's levels, prices and quantities, in order
ViewOf(levels, store, descending) ==
  /\ LevelPrices(levels) = DOMAIN store
  /\ IF descending THEN StrictlyDescending(PricesOf(levels))
     ELSE StrictlyAscending(PricesOf(levels))
  /\ \A i \in 1..Len(levels) : levels[i].quantity = store[levels[i].price]

\* C25: apply_delta rebuilds both sorted views if and only if an entry has
\* quantity 0, or a bid entry's price is strictly above the published best
\* bid, or an ask entry's price is strictly below the published best ask
\* (f64 comparisons on the values published before the call); otherwise it
\* changes only the store and the last-update time.
C25_RebuildIff ==
  \A ba \in Inputs :
    LET r == apply_delta(orderbook, ba[1], ba[2], now)
    IN IF Triggers(orderbook, ba[1], ba[2])
       THEN /\ ViewOf(r.sorted_bids, r.bids, TRUE)
            /\ ViewOf(r.sorted_asks, r.asks, FALSE)
            /\ \A i \in 1..Len(r.sorted_bids) : r.sorted_bids[i].timestamp = now
            /\ \A i \in 1..Len(r.sorted_asks) : r.sorted_asks[i].timestamp = now
       ELSE /\ r.sorted_bids = orderbook.sorted_bids
            /\ r.sorted_asks = orderbook.sorted_asks
            /\ best_bid_ask(r) = best_bid_ask(orderbook)
            /\ r.update_count = orderbook.update_count
            /\ r.last_update_time = now

C25_Witness ==
  /\ lastOp = "apply_delta"
  /\ orderbook.best_ask # NaN
  /\ DOMAIN orderbook.bids # LevelPrices(orderbook.sorted_bids)
  /\ orderbook.last_update_time = 1
  /\ \A i \in 1..Len(orderbook.sorted_bids) : orderbook.sorted_bids[i].timestamp = 0

\* C26: after any sequence of completed calls each sorted view equals the
\* sorted contents of the store as of now or as of just before the most
\* recent update, never an older state (here: after two more deltas).
C26_AtMostOneBehind ==
  \A d1 \in ClockInputs, d2 \in ClockInputs :
    LET before == apply_delta(orderbook, d1[1], d1[2], now)
        after == apply_delta(before, d2[1], d2[2], now)
    IN /\ \/ ViewOf(after.sorted_bids, after.bids, TRUE)
          \/ ViewOf(after.sorted_bids, before.bids, TRUE)
       /\ \/ ViewOf(after.sorted_asks, after.asks, FALSE)
          \/ ViewOf(after.sorted_asks, before.asks, FALSE)

\* C27: whenever no update is in progress, the prices of the sorted bid view
\* are exactly the store's bid prices in descending order and the prices of
\* the sorted ask view exactly the store's ask prices in ascending order.
C27_ViewOrdersStore ==
  /\ LevelPrices(orderbook.sorted_bids) = DOMAIN orderbook.bids
  /\ StrictlyDescending(PricesOf(orderbook.sorted_bids))
  /\ LevelPrices(orderbook.sorted_asks) = DOMAIN orderbook.asks
  /\ StrictlyAscending(PricesOf(orderbook.sorted_asks))

\* C28: in every reachable state the sorted bid view is strictly descending
\* by price, the sorted ask view strictly ascending, no price appears twice
\* on a side, and the levels of one view carry one refresh timestamp.
C28_ViewsSorted ==
  /\ StrictlyDescending(PricesOf(orderbook.sorted_bids))
  /\ StrictlyAscending(PricesOf(orderbook.sorted_asks))
  /\ \A i, j \in 1..Len(orderbook.sorted_bids) :
       orderbook.sorted_bids[i].timestamp = orderbook.sorted_bids[j].timestamp
  /\ \A i, j \in 1..Len(orderbook.sorted_asks) :
       orderbook.sorted_asks[i].timestamp = orderbook.sorted_asks[j].timestamp

C28_Witness ==
  /\ Len(orderbook.sorted_bids) = 2
  /\ Len(orderbook.sorted_asks) = 2
  /\ orderbook.sorted_bids[1].timestamp = 1
  /\ orderbook.sorted_bids[1].price > orderbook.sorted_bids[2].price
  /\ orderbook.sorted_asks[1].price < orderbook.sorted_asks[2].price

\* v is the element at index k (from 0) of the sorted measurements
SpreadAt(rs, k, v) ==
  /\ Cardinality({i \in 1..Len(rs) : RGt(v, rs[i])}) <= k
  /\ k < Cardinality({i \in 1..Len(rs) : RLe(rs[i], v)})
LiquidityAt(xs, k, v) ==
  /\ Cardinality({i \in 1..Len(xs) : xs[i] < v}) <= k
  /\ k < Cardinality({i \in 1..Len(xs) : xs[i] <= v})

\* C29: after every Valid validation both normal ranges are
\* (sorted[floor(n * 0.10)], sorted[min(floor(n * 0.90), n - 1)]) over the
\* n <= 100 measurements held, and in every reachable state each range's
\* lower bound is <= its upper bound.
C29_PercentileRanges ==
  LET ms == validator.measurements
      n == Len(ms)
      lo == n \div 10
      hi == IF (9 * n) \div 10 < n - 1 THEN (9 * n) \div 10 ELSE n - 1
      spreads == [i \in 1..n |-> ms[i].spread_pct]
      liquidities == [i \in 1..n |-> ms[i].liquidity]
  IN /\ n <= 100
     /\ RLe(validator.normal_spread_range[1], validator.normal_spread_range[2])
     /\ validator.normal_liquidity_range[1] <= validator.normal_liquidity_range[2]
     /\ (lastOp = "validate" /\ validation = "Valid" /\ validator.config.enabled) =>
          /\ SpreadAt(spreads, lo, validator.normal_spread_range[1])
          /\ SpreadAt(spreads, hi, validator.normal_spread_range[2])
          /\ LiquidityAt(liquidities, lo, validator.normal_liquidity_range[1])
          /\ LiquidityAt(liquidities, hi, validator.normal_liquidity_range[2])

\* C31: after every detect_whales call the large-order ring holds at most
\* 20 records, the most recently detected ones in detection order, and the
\* call returned every whale it detected, also when they were more than 20.
C31_LargeOrderRing ==
  LET d == hist.detected
      n == Len(d)
      kept == IF n < MaxLargeOrders THEN n ELSE MaxLargeOrders
  IN /\ Len(metrics.large_orders) <= MaxLargeOrders
     /\ metrics.large_orders = [i \in 1..kept |-> d[n - kept + i]]
     /\ lastOp = "detect_whales" =>
          Tagged(hist.returned) =
            IF metrics.avg_order_size[1] = 0 THEN <<>>
            ELSE Above(hist.bids, Len(hist.bids), "Bid", metrics.avg_order_size,
                       hist.arg)
                   \o Above(hist.asks, Len(hist.asks), "Ask",
                            metrics.avg_order_size, hist.arg)

C31_Witness ==
  /\ lastOp = "detect_whales"
  /\ Len(hist.returned) > MaxLargeOrders
  /\ Len(hist.recorded) > 0
  /\ Len(metrics.large_orders) = MaxLargeOrders
  /\ metrics.large_orders[1] = hist.returned[Len(hist.returned) - MaxLargeOrders + 1]
  /\ metrics.large_orders[1].timestamp_ms > hist.recorded[1].timestamp_ms

\* entries with a positive quantity only
Positive(levels) == \A i \in 1..Len(levels) : levels[i][2] > 0
Named(levels) == {levels[i][1] : i \in 1..Len(levels)}

\* C32: on an engine that has never been updated, an apply_delta carrying
\* only ask entries with quantity > 0 rebuilds the views and publishes the
\* lowest inserted ask price as best ask, and an apply_delta carrying only
\* bid entries with quantity > 0 publishes the highest inserted bid price as
\* best bid.
C32_FirstDeltaPublishes ==
  orderbook = OrderbookNew =>
    \A levels \in SeqsUpTo(Entries, MaxEntries) :
      (levels # <<>> /\ Positive(levels)) =>
        LET asked == apply_delta(orderbook, <<>>, levels, now)
            bidden == apply_delta(orderbook, levels, <<>>, now)
        IN /\ asked.sorted_asks = SortAsc(asked.asks, now)
           /\ asked.best_ask = SetMin(Named(levels))
           /\ bidden.sorted_bids = SortDesc(bidden.bids, now)
           /\ bidden.best_bid = SetMax(Named(levels))

(* ========================= properties of the feed ====================== *)
Started(k) == tasks[k].pc # "spawned"
Completed(k) == tasks[k].pc = "done"

\* C8: the call for message k has completed before the call for message
\* k + 1 starts (one producer, in arrival order).
C8_OneAtATimeInOrder ==
  \A j, k \in 1..Len(tasks) : (j < k /\ Started(k)) => Completed(j)

\* C9: no step of the producer's update waits for a reader: whenever a
\* handler is about to replace a sorted view, no reader holds that view's
\* lock.
C9_ProducerNeverWaits ==
  \A k \in 1..Len(tasks) :
    /\ tasks[k].pc = "write_bids" => bid_readers = {}
    /\ tasks[k].pc = "write_asks" => ask_readers = {}

\* a handler task that waits inside write(), and a reader that waits inside
\* read()
WriterWaits(k) ==
  \/ tasks[k].pc = "write_bids" /\ BidWriters # {}
  \/ tasks[k].pc = "drain_bids" /\ bid_readers # {}
  \/ tasks[k].pc = "write_asks" /\ AskWriters # {}
  \/ tasks[k].pc = "drain_asks" /\ ask_readers # {}
ReaderWaits(r) == reader[r] = "bids" /\ AskWriters # {}

SomeoneCanStep ==
  \/ \E k \in 1..Len(tasks) : ~Completed(k) /\ ~WriterWaits(k)
  \/ \E r \in Readers : reader[r] # "idle" /\ ~ReaderWaits(r)

LockDiscipline ==
  /\ \A k \in 1..Len(tasks) : ~(k \in BidWriters /\ k \in AskWriters)
  /\ Cardinality(BidWriters) <= 1 /\ Cardinality(AskWriters) <= 1
  /\ ask_readers \subseteq bid_readers
  /\ (\E k \in 1..Len(tasks) : tasks[k].pc = "hold_bids") => bid_readers = {}
  /\ (\E k \in 1..Len(tasks) : tasks[k].pc = "hold_asks") => ask_readers = {}
  /\ ((\E k \in 1..Len(tasks) : ~Completed(k)) \/ (\E r \in Readers : reader[r] # "idle"))
       => SomeoneCanStep

\* C33: producers running apply_snapshot / apply_delta and readers running
\* imbalance / liquidity_depth never deadlock: a producer holds at most one
\* sorted-view write lock at a time, a reader takes the bid read lock before
\* the ask read lock, whenever an operation is in progress one of them can
\* take a step, and under fair scheduling every handler that was spawned
\* completes and every reader that started returns.
C33_NoDeadlock ==
  /\ []LockDiscipline
  /\ \A k \in 1..MaxMsgs : (k \in 1..Len(tasks)) ~> (k \in 1..Len(tasks) /\ Completed(k))
  /\ \A r \in Readers : (reader[r] # "idle") ~> (reader[r] = "idle")

\* a chain of waits: one producer waits for the readers of the bid view to
\* leave, one of them waits for the ask lock, whose writer bit another
\* producer owns, who waits for the other reader to leave
C33_Witness ==
  \E j, k \in 1..Len(tasks), r, q \in Readers :
    /\ tasks[k].pc = "drain_bids"
    /\ reader[r] = "bids"
    /\ tasks[j].pc = "drain_asks"
    /\ reader[q] = "both"

\* C34: when best_bid_ask, run next to a single producer update, returns a
\* pair that validate takes for crossed (PriceAnomaly), the book was crossed
\* before that update or is crossed after it.
C34_NoTornCross ==
  (AllCompleted /\ hist.seen # <<>>) =>
    (hist.crossed_before \/ BookCrossed(orderbook))

\* C35: once the validator is calibrated, a validate call on a book whose
\* spread exceeds p90 * max_spread_multiplier, or whose top-10 liquidity is
\* below p10 * min_liquidity_multiplier, does not return Valid and leaves the
\* measurement ring and both normal ranges as they were; so while every
\* call finds such a book the baseline never changes again.
C35_NoAdaptation ==
  [][(Validate /\ (Wide(validator, orderbook) \/ Low(validator, orderbook))) =>
       (validation' # "Valid" /\ validator' = validator)]_vars

C35_Witness ==
  /\ lastOp = "validate"
  /\ validation = "WideSpread"
  /\ Calibrated(validator)
  /\ Wide(validator, orderbook)
  /\ ~Low(validator, orderbook)

\* C36: with config.enabled = false, validate returns Valid for every book
\* (uninitialised, crossed, stale or thin) and appends no measurement: the
\* ring stays empty and is_calibrated() stays false.
C36_DisabledPassesAll ==
  /\ [][(Validate /\ ~validator.config.enabled) =>
          (validation' = "Valid" /\ validator' = validator)]_vars
  /\ [](~validator.config.enabled =>
          (validator.measurements = <<>> /\ ~is_calibrated(validator)))

C36_Witness ==
  /\ lastOp = "validate"
  /\ ~validator.config.enabled
  /\ validation = "Valid"
  /\ Crossed(orderbook)
  /\ Stale(validator, orderbook, now)
  /\ Thin(validator, orderbook)
  /\ validator.measurements = <<>>

\* the prices a message names on one side, and the quantity it gives last
\* for a price
NamedIn(raw) == {raw[i][1] : i \in {j \in 1..Len(raw) : raw[j][3]}}
Kept(before, after, named) ==
  \A p \in DOMAIN before \ named : p \in DOMAIN after /\ after[p] = before[p]

C38_ExitEveryTick ==
  lastOp = "monitor_tick" =>
    LET before == hist.tick.before
    IN (/\ before.position # <<>>
        /\ before.keep_software_monitoring
        /\ check_exit(before.position, mid_price(orderbook)) # "None")
         => monitor.position = <<>>

\* C39: the monitor places an order only on a tick in which the book is
\* initialised, validate returned Valid, no position is open, the cooldown
\* counter is 0 and should_trade accepts the signal; a position is recorded
\* only after place_order succeeded, never over an open one, and a failed
\* order leaves no position and the cooldown at 0.
C39_OrderOnlyWhenClear ==
  lastOp = "monitor_tick" =>
    LET tick == hist.tick
    IN /\ tick.placed =>
            /\ ~Uninitialised(orderbook)
            /\ validation = "Valid"
            /\ tick.before.position = <<>>
            /\ tick.cooldown = 0
            /\ tick.inp.should_trade
       /\ (monitor.position # <<>> /\ monitor.position # tick.before.position) =>
            /\ tick.placed
            /\ tick.inp.order = "Ok"
            /\ tick.before.position = <<>>
       /\ (tick.placed /\ tick.inp.order = "Err") =>
            /\ monitor.position = <<>>
            /\ monitor.trade_cooldown = 0
       /\ Len(monitor.position) <= 1

====
